---- MODULE Spec2Model ----
(***************************************************************************)
(* A model of the funcad evaluator (src/src/eval/mod.rs, eval/scope.rs,    *)
(* eval/builtins, eval/context.rs, solids.rs) as a small-step machine.     *)
(*                                                                         *)
(* The Rust evaluator is a set of mutually recursive methods of EvalCache. *)
(* The model keeps the native call stack explicit: `ctl` is the call that  *)
(* is about to run (or the result that was just returned) and `stack` is   *)
(* the sequence of suspended callers, innermost last.  Every action is one *)
(* method body up to its next recursive call, or the part of a method that *)
(* runs after a recursive call has returned.                               *)
(*                                                                         *)
(* Numbers are the f64 values that are small integers, on which + - * are  *)
(* exact; the results that are not such values are kept as tagged classes  *)
(* (see Number, NotANumber, Infinite, Opaque).                             *)
(***************************************************************************)
EXTENDS Integers, Sequences, FiniteSets, TLC

VARIABLES
    docs,        \* the DocSet: FQPath -> Document (fixed during a run)
    entry,       \* the arguments of eval_function: [doc_path, func_name]
    evaluating,  \* EvalCache.evaluating: the set of Scopes being evaluated
    cache,       \* EvalCache.cache: Scope -> Value
    solids,      \* EvalCache.solids.solids: the Vec<Solid> of the SolidSet
    ctl,         \* the call about to run / the result just returned
    stack,       \* the suspended callers, innermost last
    runs,        \* the results of the eval_function calls made so far
    hist,        \* history of the current run (observations only)
    sources,     \* what get_source returns for each FQPath (fixed)
    to_parse,    \* parse_all: the BTreeSet of paths still to parse
    parsed,      \* parse_all: the HashMap of the Documents parsed so far
    reads,       \* the get_source calls made so far (observations only)
    loaded,      \* what parse_all returned, once it has returned
    applied      \* the last operation applied outside a run, with its result

eval_vars == <<docs, entry, evaluating, cache, solids, ctl, stack, runs, hist>>
load_vars == <<sources, to_parse, parsed, reads, loaded>>
vars == <<docs, entry, evaluating, cache, solids, ctl, stack, runs, hist,
          sources, to_parse, parsed, reads, loaded, applied>>

(***************************************************************************)
(* Bounds of the model.                                                    *)
(***************************************************************************)
\* The number of segments of the FQPath and of the import string that
\* import_path is applied to.
MaxBase == 2
MaxParts == 3
\* The angles a trigonometric built-in is applied to are the whole degrees
\* from -MaxAngle to MaxAngle.
MaxAngle == 180
\* The number of frames pushed on an EvalContext before eval_err.
MaxFrames == 3
\* The number of statements of a document that Document::try_from is
\* applied to.
MaxStatements == 3
\* The number of Solids a SolidSet holds when its methods are applied alone.
MaxSolids == 2
\* The depth of suspended callers at which the native stack is exhausted.
MaxStack == 9
\* The number of eval_function calls made on one DocSet.
MaxRuns == 2

(***************************************************************************)
(* Options, maps and sequences.                                            *)
(***************************************************************************)
\* Option<T>: None is <<>>, Some(x) is <<x>>.
None == <<>>
Some(x) == <<x>>
IsSome(o) == o # <<>>
Unwrap(o) == o[1]

\* BTreeMap / HashMap as a function; the empty map is <<>>.
EmptyMap == <<>>
contains_key(m, key) == key \in DOMAIN m
map_insert(m, key, v) == [x \in DOMAIN m \cup {key} |-> IF x = key THEN v ELSE m[x]]

Front(s) == SubSeq(s, 1, Len(s) - 1)
Last(s) == s[Len(s)]

RECURSIVE Reverse(_)
Reverse(s) == IF s = <<>> THEN <<>> ELSE Append(Reverse(Tail(s)), Head(s))

(***************************************************************************)
(* AST (src/src/ast).                                                      *)
(***************************************************************************)
\* Number::try_from (ast/expr.rs:109-120): the f64 that str::parse gives for
\* the text of the literal.  A text is the integer its digits denote when an
\* f64 holds it; str::parse rounds a digit string above f64::MAX to infinity
\* and does not fail on it.
Text(n) == [overflows |-> FALSE, n |-> n]
HugeText == [overflows |-> TRUE, n |-> 0]
parse_f64(text) ==
    IF text.overflows
    THEN [t |-> "Number", n |-> 0, s |-> "inf"]
    ELSE [t |-> "Number", n |-> text.n, s |-> "finite"]
Num(v) == [k |-> "Number", val |-> parse_f64(Text(v))]
HugeNum == [k |-> "Number", val |-> parse_f64(HugeText)]
Neg(u) == [k |-> "Unary", op |-> "Neg", unit |-> u]
Bin(l, o, r) == [k |-> "Binary", lhs |-> l, op |-> o, rhs |-> r]
CallArgsNone == [k |-> "None"]
Positional(es) == [k |-> "Positional", args |-> es]
Named(m) == [k |-> "Named", args |-> m]
FuncCall(imp, name, args) ==
    [k |-> "FuncCall", import_part |-> imp, name_part |-> name, args |-> args]
\* An unqualified call without an argument list: `f`.
Ref(name) == FuncCall(None, name, CallArgsNone)

ArgDef(name, default) == [name |-> name, default |-> default]
FuncDef(name, args, body) == [name |-> name, args |-> args, body |-> body]
Import(alias, file) == [alias |-> alias, file |-> file]
Document(imports, funcs) == [imports |-> imports, funcs |-> funcs]

(***************************************************************************)
(* Values (src/src/eval/value.rs) and SolidIds (src/src/solids.rs).        *)
(***************************************************************************)
\* Value::Number of an f64 that is the integer n.
Number(n) == [t |-> "Number", n |-> n, s |-> "finite"]
\* Value::Number of a finite f64 that is no integer: the result of a
\* trigonometric function (tag sin, cos, tan of n degrees).
Opaque(tag, n) == [t |-> "Number", n |-> n, s |-> tag]
\* Value::Number of an infinity or of a NaN.
Infinite == [t |-> "Number", n |-> 0, s |-> "inf"]
NotANumber == [t |-> "Number", n |-> 0, s |-> "nan"]
\* A finite f64 the model has no exact class for (an inexact quotient,
\* arithmetic on an Opaque); ArithmeticExact shows no run meets one.
Inexact == [t |-> "Number", n |-> 0, s |-> "inexact"]

Regular(i) == [t |-> "Solid", n |-> i, s |-> "Regular"]
Empty == [t |-> "Solid", n |-> 0, s |-> "Empty"]
Universal == [t |-> "Solid", n |-> 0, s |-> "Universal"]

IsNumber(v) == v.t = "Number"
IsSolid(v) == v.t = "Solid"
is_finite(v) == v.s \notin {"inf", "nan"}
IsInt(v) == v.t = "Number" /\ v.s = "finite"

NUMBER_TYPE_NAME == "number"
SOLID_TYPE_NAME == "number"
type_name(v) == IF IsNumber(v) THEN NUMBER_TYPE_NAME ELSE SOLID_TYPE_NAME

(***************************************************************************)
(* Scopes (src/src/eval/scope.rs).                                         *)
(***************************************************************************)
ScopeFuncCall(name, args, doc_path) ==
    [kind |-> "FuncCall", name |-> name, args |-> args, doc_path |-> doc_path, arg |-> ""]
ScopeArgDefault(doc_path, func, arg) ==
    [kind |-> "ArgDefault", name |-> func, args |-> EmptyMap, doc_path |-> doc_path, arg |-> arg]
ScopeBuiltIn(name, args) ==
    [kind |-> "BuiltIn", name |-> name, args |-> args, doc_path |-> <<>>, arg |-> ""]

\* Scope::doc
scope_doc(scope) ==
    IF scope.kind \in {"FuncCall", "ArgDefault"} THEN Some(scope.doc_path) ELSE None
\* Scope::args
scope_args(scope) ==
    IF scope.kind \in {"FuncCall", "BuiltIn"} THEN scope.args ELSE EmptyMap

(***************************************************************************)
(* Errors (src/src/error.rs) and the context stack (eval/context.rs).      *)
(***************************************************************************)
\* An EvalErrorType: its variant and the fields the variants carry.
ErrorFields(type, name, path, expected, got) ==
    [type |-> type, name |-> name, path |-> path, expected |-> expected, got |-> got]
ErrorType(type, name) == ErrorFields(type, name, <<>>, "", "")
ErrorPath(type, path) == ErrorFields(type, "", path, "", "")
EvalError(error_type, context_entries) ==
    [error_type |-> error_type, context_entries |-> context_entries]

NoValue == [t |-> "None", n |-> 0, s |-> ""]
NoError == EvalError(ErrorType("", ""), <<>>)
Ok(v) == [ok |-> TRUE, val |-> v, err |-> NoError]
Err(e) == [ok |-> FALSE, val |-> NoValue, err |-> e]

\* An EvalContext is a linked list of Nodes; the model keeps it as the
\* sequence of its entries, the outermost Node first (outer = Front).
ContextNone == <<>>
ContextNode(entry_, outer) == Append(outer, entry_)

\* The position of a frame is its document; line and column are not kept.
push_func_call(context, expr, doc) ==
    ContextNode([entry_type |-> "FuncCall", text |-> expr, doc |-> doc], context)
push_func_def(context, func, doc) ==
    ContextNode([entry_type |-> "FuncDef", name |-> func.name, doc |-> doc], context)
push_arg_default(context, arg, func, doc) ==
    ContextNode([entry_type |-> "ArgDefault", func |-> func.name,
                 arg |-> arg.name, doc |-> doc], context)
push_built_in(context, name) ==
    ContextNode([entry_type |-> "BuiltIn", name |-> name], context)

RECURSIVE to_vec_rev(_)
to_vec_rev(context) ==
    IF context = ContextNone THEN <<>>
    ELSE Append(to_vec_rev(Front(context)), Last(context))

eval_err(context, error_type) ==
    Err(EvalError(error_type, Reverse(to_vec_rev(context))))

\* From<ParseError> for EvalError, and the errors of the SolidSet: no context.
bare_err(error_type) == Err(EvalError(error_type, <<>>))

(***************************************************************************)
(* FQPath (src/src/lib.rs): a sequence of segments.  An import's file is   *)
(* kept as the sequence of its "/"-separated parts.                        *)
(***************************************************************************)
RECURSIVE import_path_parts(_, _, _)
import_path_parts(new_parts, parts, import) ==
    IF parts = <<>> THEN [ok |-> TRUE, path |-> new_parts, err |-> ErrorType("", "")]
    ELSE IF Head(parts) = ".."
         THEN IF new_parts = <<>>
              THEN [ok |-> FALSE, path |-> <<>>,
                    err |-> ErrorType("Parse", "ImportNotInDir")]
              ELSE import_path_parts(Front(new_parts), Tail(parts), import)
         ELSE import_path_parts(Append(new_parts, Head(parts)), Tail(parts), import)

\* An import_path that resolves against the path of the document itself
\* and not against its directory.
import_path_from_doc(self, import) == import_path_parts(self, import.file, import)
import_path(self, import) ==
    import_path_parts(IF self = <<>> THEN <<>> ELSE Front(self), import.file, import)

(***************************************************************************)
(* SolidSet (src/src/solids.rs).  A Solid of the store is kept as the term *)
(* that built it; the geometry kernel (truck_shapeops, truck_modeling) is  *)
(* outside the repository and is modelled by the terms it is applied to.   *)
(***************************************************************************)
Solid(op, a, b) == [op |-> op, a |-> a, b |-> b]
NoSolid == Solid("", NoValue, NoValue)

\* Solid::not on a clone.
solid_not(x) == Solid("not", x, NoSolid)
\* truck_shapeops::or: the union of two solids is a solid.
truck_or(l, r) == Some(Solid("or", l, r))
\* truck_shapeops::and: None when the operands have no common volume; the
\* model knows this of a solid and its own complement.
truck_and(l, r) ==
    IF l = solid_not(r) \/ r = solid_not(l) THEN None ELSE Some(Solid("and", l, r))

\* The result of a SolidSet method: the returned id and the store after it.
SolidOk(id, store) == [res |-> Ok(id), solids |-> store]
SolidErr(e, store) == [res |-> e, solids |-> store]

try_get(store, id) ==
    IF id.s = "Regular" /\ id.n < Len(store) THEN Some(store[id.n + 1]) ELSE None

InvalidSolidId == bare_err(ErrorType("InvalidSolidId", ""))

\* A push that takes the place of the first Solid when the set has one.
solids_push_reuse(store, new) ==
    IF store = <<>> THEN SolidOk(Regular(0), <<new>>)
    ELSE SolidOk(Regular(0), [store EXCEPT ![1] = new])
solids_push(store, new) == SolidOk(Regular(Len(store)), Append(store, new))

push_or_empty(store, new) ==
    IF IsSome(new) THEN solids_push(store, Unwrap(new)) ELSE SolidOk(Empty, store)

solids_negate(store, solid) ==
    CASE solid.s = "Regular" ->
           IF IsSome(try_get(store, solid))
           THEN solids_push(store, solid_not(Unwrap(try_get(store, solid))))
           ELSE SolidErr(InvalidSolidId, store)
      [] solid.s = "Empty" -> SolidOk(Universal, store)
      [] OTHER -> SolidOk(Empty, store)

\* A union that gives a copy of the other operand when one is Empty.
solids_union_copy(store, lhs, rhs) ==
    CASE lhs.s = "Regular" /\ rhs.s = "Regular" ->
           IF IsSome(try_get(store, lhs)) /\ IsSome(try_get(store, rhs))
           THEN push_or_empty(store, truck_or(Unwrap(try_get(store, lhs)),
                                               Unwrap(try_get(store, rhs))))
           ELSE SolidErr(InvalidSolidId, store)
      [] lhs.s = "Empty" /\ IsSome(try_get(store, rhs)) ->
           solids_push(store, Unwrap(try_get(store, rhs)))
      [] lhs.s = "Empty" -> SolidOk(rhs, store)
      [] rhs.s = "Empty" -> SolidOk(lhs, store)
      [] OTHER -> SolidOk(Universal, store)
solids_union(store, lhs, rhs) ==
    CASE lhs.s = "Regular" /\ rhs.s = "Regular" ->
           IF IsSome(try_get(store, lhs)) /\ IsSome(try_get(store, rhs))
           THEN push_or_empty(store, truck_or(Unwrap(try_get(store, lhs)),
                                               Unwrap(try_get(store, rhs))))
           ELSE SolidErr(InvalidSolidId, store)
      [] lhs.s = "Empty" -> SolidOk(rhs, store)
      [] rhs.s = "Empty" -> SolidOk(lhs, store)
      [] OTHER -> SolidOk(Universal, store)

\* An intersection that stores a copy of the other operand when one is
\* Universal.
solids_intersection_copy(store, lhs, rhs) ==
    CASE lhs.s = "Regular" /\ rhs.s = "Regular" ->
           IF IsSome(try_get(store, lhs)) /\ IsSome(try_get(store, rhs))
           THEN push_or_empty(store, truck_and(Unwrap(try_get(store, lhs)),
                                                Unwrap(try_get(store, rhs))))
           ELSE SolidErr(InvalidSolidId, store)
      [] lhs.s = "Empty" \/ rhs.s = "Empty" -> SolidOk(Empty, store)
      [] lhs.s = "Universal" /\ IsSome(try_get(store, rhs)) ->
           solids_push(store, Unwrap(try_get(store, rhs)))
      [] lhs.s = "Universal" -> SolidOk(rhs, store)
      [] OTHER -> SolidOk(lhs, store)
solids_intersection(store, lhs, rhs) ==
    CASE lhs.s = "Regular" /\ rhs.s = "Regular" ->
           IF IsSome(try_get(store, lhs)) /\ IsSome(try_get(store, rhs))
           THEN push_or_empty(store, truck_and(Unwrap(try_get(store, lhs)),
                                                Unwrap(try_get(store, rhs))))
           ELSE SolidErr(InvalidSolidId, store)
      [] lhs.s = "Empty" \/ rhs.s = "Empty" -> SolidOk(Empty, store)
      [] lhs.s = "Universal" -> SolidOk(rhs, store)
      [] OTHER -> SolidOk(lhs, store)

\* A difference that has no arm for a Universal right operand: what is left
\* of a Regular Solid is then the Solid itself.
solids_difference_keep(store, lhs, rhs) ==
    CASE lhs.s = "Regular" /\ rhs.s = "Regular" ->
           IF IsSome(try_get(store, rhs)) /\ IsSome(try_get(store, lhs))
           THEN push_or_empty(store, truck_and(Unwrap(try_get(store, lhs)),
                                                solid_not(Unwrap(try_get(store, rhs)))))
           ELSE SolidErr(InvalidSolidId, store)
      [] lhs.s = "Empty" -> SolidOk(Empty, store)
      [] rhs.s = "Empty" -> SolidOk(lhs, store)
      [] lhs.s = "Universal" -> solids_negate(store, rhs)
      [] OTHER -> SolidOk(lhs, store)
solids_difference(store, lhs, rhs) ==
    CASE lhs.s = "Regular" /\ rhs.s = "Regular" ->
           IF IsSome(try_get(store, rhs)) /\ IsSome(try_get(store, lhs))
           THEN push_or_empty(store, truck_and(Unwrap(try_get(store, lhs)),
                                                solid_not(Unwrap(try_get(store, rhs)))))
           ELSE SolidErr(InvalidSolidId, store)
      [] lhs.s = "Empty" \/ rhs.s = "Universal" -> SolidOk(Empty, store)
      [] rhs.s = "Empty" -> SolidOk(lhs, store)
      [] OTHER -> solids_negate(store, rhs)

(***************************************************************************)
(* f64 arithmetic on the Number classes.                                   *)
(***************************************************************************)
Abs(n) == IF n < 0 THEN -n ELSE n

\* An operand that is an infinity or a NaN: the sign of an infinity is not
\* kept, so the sum or difference of two infinities is a NaN or an infinity.
IsNaN(x) == x.s = "nan"
IsInf(x) == x.s = "inf"
NonFinite(l, r) == IF IsNaN(l) \/ IsNaN(r) THEN NotANumber ELSE Infinite

f64_neg(x) == IF IsInt(x) THEN Number(-x.n) ELSE IF ~is_finite(x) THEN x ELSE Inexact
f64_add(l, r) ==
    IF IsInt(l) /\ IsInt(r) THEN Number(l.n + r.n)
    ELSE IF ~is_finite(l) \/ ~is_finite(r) THEN NonFinite(l, r)
    ELSE Inexact
f64_sub(l, r) ==
    IF IsInt(l) /\ IsInt(r) THEN Number(l.n - r.n)
    ELSE IF ~is_finite(l) \/ ~is_finite(r) THEN NonFinite(l, r)
    ELSE Inexact
f64_mul(l, r) ==
    IF IsInt(l) /\ IsInt(r) THEN Number(l.n * r.n)
    ELSE IF (IsInf(l) /\ r = Number(0)) \/ (l = Number(0) /\ IsInf(r)) THEN NotANumber
    ELSE IF ~is_finite(l) \/ ~is_finite(r) THEN NonFinite(l, r)
    ELSE Inexact
f64_div(l, r) ==
    IF IsInf(l) /\ IsInf(r) THEN NotANumber
    ELSE IF IsInt(l) /\ IsInf(r) THEN Number(0)
    ELSE IF ~is_finite(l) \/ ~is_finite(r) THEN NonFinite(l, r)
    ELSE IF ~(IsInt(l) /\ IsInt(r)) THEN Inexact
    ELSE IF r.n = 0 THEN (IF l.n = 0 THEN NotANumber ELSE Infinite)
    ELSE IF Abs(l.n) % Abs(r.n) = 0
         THEN Number((IF (l.n < 0) = (r.n < 0) THEN 1 ELSE -1) * (Abs(l.n) \div Abs(r.n)))
         ELSE Inexact

\* f64::sin(angle.to_radians()) and its like, for an angle in whole degrees:
\* the result is an integer at the angles below and no integer elsewhere.
f64_sin_deg(angle) ==
    IF ~is_finite(angle) THEN NotANumber
    ELSE IF ~IsInt(angle) THEN Inexact
    ELSE IF angle.n = 0 THEN Number(0)
    ELSE IF angle.n % 180 = 90 THEN Number(IF angle.n % 360 = 90 THEN 1 ELSE -1)
    ELSE Opaque("sin", angle.n)
f64_cos_deg(angle) ==
    IF ~is_finite(angle) THEN NotANumber
    ELSE IF ~IsInt(angle) THEN Inexact
    ELSE IF angle.n % 180 = 0 THEN Number(IF angle.n % 360 = 0 THEN 1 ELSE -1)
    ELSE Opaque("cos", angle.n)
f64_tan_deg(angle) ==
    IF ~is_finite(angle) THEN NotANumber
    ELSE IF ~IsInt(angle) THEN Inexact
    ELSE IF angle.n = 0 THEN Number(0)
    ELSE Opaque("tan", angle.n)
\* A test of the angles where the tangent has a pole only.
rem_euclid_180_is_90(angle) == IsInt(angle) /\ angle.n % 180 = 90
\* angle.rem_euclid(90.).abs_diff_eq(&0., tolerance), for whole degrees.
rem_euclid_90_is_zero(angle) == IsInt(angle) /\ angle.n % 90 = 0

(***************************************************************************)
(* Built-ins (src/src/eval/builtins).                                      *)
(***************************************************************************)
BuiltInArgDef(name, default) == [name |-> name, default |-> default]

BuiltInNames == {"Cube", "Sin", "Cos", "Tan"}
\* EvalCache::get_built_in_func
get_built_in_func(name) == IF name \in BuiltInNames THEN Some(name) ELSE None

\* BuiltIn::arg_defs: the ARGS of each built-in.
arg_defs(built_in) ==
    IF built_in = "Cube" THEN <<BuiltInArgDef("size", Some(Number(1)))>>
    ELSE <<BuiltInArgDef("angle", None)>>

\* BuiltInStatic::num_arg
num_arg(name, args, context) ==
    IF ~contains_key(args, name) THEN eval_err(context, ErrorType("ArgNotFound", name))
    ELSE IF ~IsNumber(args[name])
    THEN eval_err(context, ErrorFields("ArgWrongType", name, <<>>, NUMBER_TYPE_NAME,
                                       type_name(args[name])))
    ELSE Ok(args[name])

\* Cube::eval_static: the cube is swept from a vertex by `size`.
Cube_eval_static(store, args, context) ==
    LET size == num_arg("size", args, context) IN
    IF ~size.ok THEN SolidErr(size, store)
    ELSE solids_push(store, Solid("cube", size.val, NoValue))

Sin_eval_static(store, args, context) ==
    LET angle == num_arg("angle", args, context) IN
    IF ~angle.ok THEN SolidErr(angle, store)
    ELSE SolidOk(f64_sin_deg(angle.val), store)

Cos_eval_static(store, args, context) ==
    LET angle == num_arg("angle", args, context) IN
    IF ~angle.ok THEN SolidErr(angle, store)
    ELSE SolidOk(f64_cos_deg(angle.val), store)

Tan_eval_static(store, args, context) ==
    LET angle == num_arg("angle", args, context) IN
    IF ~angle.ok THEN SolidErr(angle, store)
    ELSE IF rem_euclid_90_is_zero(angle.val)
         THEN SolidErr(eval_err(context, ErrorType("NumExprNotFinite", "")), store)
         ELSE SolidOk(f64_tan_deg(angle.val), store)

\* BuiltIn::eval: eval_static on the arguments of the scope.
built_in_eval(built_in, store, scope, context) ==
    CASE built_in = "Cube" -> Cube_eval_static(store, scope_args(scope), context)
      [] built_in = "Sin" -> Sin_eval_static(store, scope_args(scope), context)
      [] built_in = "Cos" -> Cos_eval_static(store, scope_args(scope), context)
      [] OTHER -> Tan_eval_static(store, scope_args(scope), context)

\* BuiltIn::add_default_args: the loop from the i-th arg_def on.
RECURSIVE add_default_args_from(_, _, _, _)
add_default_args_from(built_in, i, args, context) ==
    IF i > Len(arg_defs(built_in)) THEN [ok |-> TRUE, args |-> args, err |-> NoError]
    ELSE LET def == arg_defs(built_in)[i] IN
         IF contains_key(args, def.name)
         THEN add_default_args_from(built_in, i + 1, args, context)
         ELSE IF ~IsSome(def.default)
              THEN [ok |-> FALSE, args |-> args,
                    err |-> eval_err(context,
                                     ErrorType("NoSuppliedOrDefaultArg", def.name)).err]
              ELSE add_default_args_from(built_in, i + 1,
                                         map_insert(args, def.name, Unwrap(def.default)),
                                         context)
\* An add_default_args that adds nothing and reports nothing.
add_default_args_none(built_in, args, context) ==
    [ok |-> TRUE, args |-> args, err |-> NoError]
add_default_args(built_in, args, context) ==
    add_default_args_from(built_in, 1, args, context)

(***************************************************************************)
(* The machine: ctl, stack and the history.                                *)
(***************************************************************************)
Idle == [mode |-> "idle"]
CallEvalScope(scope, context) ==
    [mode |-> "eval_scope", scope |-> scope, context |-> context]
CallEvalExpr(expr, scope, context) ==
    [mode |-> "eval_expr", expr |-> expr, scope |-> scope, context |-> context]
Supplied(b) == [mode |-> "supplied", b |-> b]
Defaults(b) == [mode |-> "defaults", b |-> b]
Return(res) == [mode |-> "return", res |-> res]

\* Suspended callers.
ScopeFrame(scope) == [k |-> "eval_scope", scope |-> scope]
UnaryFrame == [k |-> "eval_unary_expr"]
BinaryLhsFrame(expr, scope, context) ==
    [k |-> "binary_lhs", expr |-> expr, scope |-> scope, context |-> context]
BinaryRhsFrame(lhsv, expr, context) ==
    [k |-> "binary_rhs", lhsv |-> lhsv, expr |-> expr, context |-> context]
SuppliedFrame(b, name) == [k |-> "supplied_arg", b |-> b, name |-> name]
DefaultFrame(b, name) == [k |-> "default_arg", b |-> b, name |-> name]

Top == Last(stack)
Pop == Front(stack)
Returning(k) == ctl.mode = "return" /\ stack # <<>> /\ Top.k = k
\* A call needs room on the native stack.
CanCall(mode) == ctl.mode = mode /\ Len(stack) < MaxStack

\* The state of one argument binding (eval_func_call_args or
\* eval_built_in_call_args): the call, the callee and the arguments so far.
Binding(callee, call, func_def, built_in, def_doc_path, scope, context) ==
    [callee |-> callee, call |-> call, func_def |-> func_def, built_in |-> built_in,
     def_doc_path |-> def_doc_path, scope |-> scope, context |-> context,
     args |-> EmptyMap, index |-> 1, supplied |-> EmptyMap, values |-> <<>>,
     todo |-> IF call.args.k = "Named" THEN DOMAIN call.args.args ELSE {}]
NoFuncDef == FuncDef("", None, Num(0))

\* The history of a run: the scopes whose unit of work was started
\* (executed), the eval_scope calls that returned (returned), the eval_scope
\* calls entered with a scope of the evaluating set (reentered), the calls
\* resolved by eval_func_call_expr (resolved), the turns of the loops over
\* supplied arguments (turns) and the calls whose arguments were all bound
\* (calls).
EmptyHist ==
    [executed |-> <<>>, returned |-> <<>>, reentered |-> <<>>,
     resolved |-> <<>>, turns |-> <<>>, calls |-> <<>>]

Outcome(kind, res) == [outcome |-> kind, res |-> res]

\* No operation was applied outside a run, and parse_all is not running.
NoOp == [fn |-> ""]
NotCalled == [state |-> "not_called"]
NotLoading ==
    /\ sources = EmptyMap
    /\ to_parse = {}
    /\ parsed = EmptyMap
    /\ reads = <<>>
    /\ loaded = NotCalled

(***************************************************************************)
(* eval_function / EvalCache::eval_func_by_name.                           *)
(***************************************************************************)
\* The FuncCall scope of the entry is built with no supplied arguments: its
\* parameters are left to their defaults (add_default_func_def_args), and a
\* parameter without a default fails in its ArgDefault scope.  A document or
\* a function that the DocSet does not have is reported by eval_scope.
entry_scope == ScopeFuncCall(entry.func_name, EmptyMap, entry.doc_path)
entry_found ==
    /\ contains_key(docs, entry.doc_path)
    /\ contains_key(docs[entry.doc_path].funcs, entry.func_name)
eval_function ==
    /\ ctl.mode = "idle"
    /\ Len(runs) < MaxRuns
    /\ evaluating' = {}
    /\ cache' = EmptyMap
    /\ solids' = <<>>
    /\ stack' = <<>>
    /\ hist' = EmptyHist
    /\ ctl' = IF entry_found
              THEN Defaults(Binding("func", FuncCall(None, entry.func_name, CallArgsNone),
                                    docs[entry.doc_path].funcs[entry.func_name], "",
                                    entry.doc_path, entry_scope, ContextNone))
              ELSE CallEvalScope(entry_scope, ContextNone)
    /\ UNCHANGED <<applied, load_vars, docs, entry, runs>>

eval_function_return ==
    /\ ctl.mode = "return"
    /\ stack = <<>>
    /\ runs' = Append(runs, Outcome("returned", ctl.res))
    /\ ctl' = Idle
    /\ UNCHANGED <<applied, load_vars, docs, entry, evaluating, cache, solids, stack, hist>>

\* The recursion of the evaluator is native recursion: when the suspended
\* callers fill the stack the process is aborted, and eval_function returns
\* neither a Value nor an EvalError.
stack_overflow ==
    /\ ctl.mode \notin {"idle", "return"}
    /\ Len(stack) >= MaxStack
    /\ runs' = Append(runs, Outcome("aborted", Err(NoError)))
    /\ ctl' = Idle
    /\ UNCHANGED <<applied, load_vars, docs, entry, evaluating, cache, solids, stack, hist>>

(***************************************************************************)
(* EvalCache::eval_scope and eval_scope_unchecked (eval/scope.rs).         *)
(***************************************************************************)
\* eval_scope without the check of the evaluating set.
is_evaluating_unchecked(scope) == FALSE
\* scope.rs:55
is_evaluating(scope) == scope \in evaluating
\* eval_scope that never finds a scope in the cache.
cache_get_miss(scope) == None
\* scope.rs:60
cache_get(scope) == IF contains_key(cache, scope) THEN Some(cache[scope]) ELSE None
\* eval_scope that caches whatever eval_scope_unchecked returned.
cache_result_any(c, scope, res) == map_insert(c, scope, res.val)
\* scope.rs:68-70
cache_result(c, scope, res) == IF res.ok THEN map_insert(c, scope, res.val) ELSE c

Returned(scope, res) == [scope |-> scope, res |-> res]

\* The scopes of the eval_scope calls that are suspended, outermost first.
RECURSIVE ActiveScopes(_)
ActiveScopes(st) ==
    IF st = <<>> THEN <<>>
    ELSE IF Last(st).k = "eval_scope"
         THEN Append(ActiveScopes(Front(st)), Last(st).scope)
         ELSE ActiveScopes(Front(st))

\* History: eval_scope is entered, and its scope is in the evaluating set.
Entered ==
    IF ctl.scope \in evaluating
    THEN Append(hist.reentered, [scope |-> ctl.scope, chain |-> ActiveScopes(stack)])
    ELSE hist.reentered

\* An eval_scope that takes a scope for one that is being evaluated when a
\* scope of the same function is, whatever its arguments.
eval_scope_recursion_by_name ==
    /\ CanCall("eval_scope")
    /\ \E active \in evaluating :
          /\ active.kind = ctl.scope.kind
          /\ active.name = ctl.scope.name
          /\ active.doc_path = ctl.scope.doc_path
          /\ active.arg = ctl.scope.arg
    /\ LET res == eval_err(ctl.context, ErrorType("InfiniteRecursion", "")) IN
       /\ ctl' = Return(res)
       /\ hist' = [hist EXCEPT !.returned = Append(@, Returned(ctl.scope, res)),
                                !.reentered = Entered]
    /\ UNCHANGED <<applied, load_vars, docs, entry, evaluating, cache, solids, stack, runs>>
\* The scope is being evaluated already: InfiniteRecursion.
eval_scope_recursion ==
    /\ CanCall("eval_scope")
    /\ is_evaluating(ctl.scope)
    /\ LET res == eval_err(ctl.context, ErrorType("InfiniteRecursion", "")) IN
       /\ ctl' = Return(res)
       /\ hist' = [hist EXCEPT !.returned = Append(@, Returned(ctl.scope, res)),
                                !.reentered = Entered]
    /\ UNCHANGED <<applied, load_vars, docs, entry, evaluating, cache, solids, stack, runs>>

\* The scope is in the cache: the cached value, without eval_scope_unchecked.
eval_scope_cached ==
    /\ CanCall("eval_scope")
    /\ ~is_evaluating(ctl.scope)
    /\ IsSome(cache_get(ctl.scope))
    /\ LET res == Ok(Unwrap(cache_get(ctl.scope))) IN
       /\ ctl' = Return(res)
       /\ evaluating' = (evaluating \cup {ctl.scope}) \ {ctl.scope}
       /\ cache' = cache_result(cache, ctl.scope, res)
       /\ hist' = [hist EXCEPT !.returned = Append(@, Returned(ctl.scope, res)),
                                !.reentered = Entered]
    /\ UNCHANGED <<applied, load_vars, docs, entry, solids, stack, runs>>

\* What eval_scope_unchecked does before it evaluates an expression: an error,
\* or the expression and the context it is evaluated in.
Failed(res) == [ok |-> FALSE, res |-> res, expr |-> Num(0), context |-> ContextNone]
Evaluate(expr, context) ==
    [ok |-> TRUE, res |-> Err(NoError), expr |-> expr, context |-> context]

\* A FuncCall branch that reports a document the DocSet does not have as a
\* function that was not found.
eval_scope_unchecked_FuncCall_no_doc(scope, context) ==
    IF ~contains_key(docs, scope.doc_path)
    THEN Failed(eval_err(context, ErrorType("FuncNotFound", scope.name)))
    ELSE IF ~contains_key(docs[scope.doc_path].funcs, scope.name)
    THEN Failed(eval_err(context, ErrorType("FuncNotFound", scope.name)))
    ELSE LET func == docs[scope.doc_path].funcs[scope.name] IN
         Evaluate(func.body, push_func_def(context, func, scope.doc_path))
eval_scope_unchecked_FuncCall(scope, context) ==
    IF ~contains_key(docs, scope.doc_path)
    THEN Failed(eval_err(context, ErrorPath("DocNotFound", scope.doc_path)))
    ELSE IF ~contains_key(docs[scope.doc_path].funcs, scope.name)
    THEN Failed(eval_err(context, ErrorType("FuncNotFound", scope.name)))
    ELSE LET func == docs[scope.doc_path].funcs[scope.name] IN
         Evaluate(func.body, push_func_def(context, func, scope.doc_path))

args_with_name(args, name) ==
    LET found == {i \in 1..Len(args) : args[i].name = name} IN
    IF found = {} THEN None ELSE Some(args[CHOOSE i \in found : \A j \in found : i <= j])

\* An ArgDefault scope that takes 0 for a parameter without a default.
eval_scope_unchecked_ArgDefault_zero(scope, context) ==
    IF ~contains_key(docs, scope.doc_path)
    THEN Failed(eval_err(context, ErrorPath("DocNotFound", scope.doc_path)))
    ELSE IF ~contains_key(docs[scope.doc_path].funcs, scope.name)
    THEN Failed(eval_err(context, ErrorType("FuncNotFound", scope.name)))
    ELSE LET func == docs[scope.doc_path].funcs[scope.name] IN
         IF ~IsSome(func.args)
         THEN Failed(eval_err(context, ErrorType("ArgNotFound", scope.arg)))
         ELSE LET def == args_with_name(Unwrap(func.args), scope.arg) IN
              IF ~IsSome(def)
              THEN Failed(eval_err(context, ErrorType("ArgNotFound", scope.arg)))
              ELSE IF ~IsSome(Unwrap(def).default)
              THEN Evaluate(Num(0), push_arg_default(context, Unwrap(def), func,
                                                     scope.doc_path))
              ELSE Evaluate(Unwrap(Unwrap(def).default),
                            push_arg_default(context, Unwrap(def), func, scope.doc_path))
eval_scope_unchecked_ArgDefault(scope, context) ==
    IF ~contains_key(docs, scope.doc_path)
    THEN Failed(eval_err(context, ErrorPath("DocNotFound", scope.doc_path)))
    ELSE IF ~contains_key(docs[scope.doc_path].funcs, scope.name)
    THEN Failed(eval_err(context, ErrorType("FuncNotFound", scope.name)))
    ELSE LET func == docs[scope.doc_path].funcs[scope.name] IN
         IF ~IsSome(func.args)
         THEN Failed(eval_err(context, ErrorType("ArgNotFound", scope.arg)))
         ELSE LET def == args_with_name(Unwrap(func.args), scope.arg) IN
              IF ~IsSome(def)
              THEN Failed(eval_err(context, ErrorType("ArgNotFound", scope.arg)))
              ELSE IF ~IsSome(Unwrap(def).default)
              THEN Failed(eval_err(context,
                                   ErrorType("NoSuppliedOrDefaultArg", scope.arg)))
              ELSE Evaluate(Unwrap(Unwrap(def).default),
                            push_arg_default(context, Unwrap(def), func, scope.doc_path))

\* A FuncCall or ArgDefault scope that is not cached: eval_scope_unchecked
\* finds the expression of the scope and evaluates it with eval_expr.
eval_scope_expr ==
    /\ CanCall("eval_scope")
    /\ ~is_evaluating(ctl.scope)
    /\ ~IsSome(cache_get(ctl.scope))
    /\ ctl.scope.kind \in {"FuncCall", "ArgDefault"}
    /\ LET unit == IF ctl.scope.kind = "FuncCall"
                   THEN eval_scope_unchecked_FuncCall(ctl.scope, ctl.context)
                   ELSE eval_scope_unchecked_ArgDefault(ctl.scope, ctl.context) IN
       IF unit.ok
       THEN /\ evaluating' = evaluating \cup {ctl.scope}
            /\ stack' = Append(stack, ScopeFrame(ctl.scope))
            /\ ctl' = CallEvalExpr(unit.expr, ctl.scope, unit.context)
            /\ hist' = [hist EXCEPT !.executed = Append(@, ctl.scope),
                                     !.reentered = Entered]
            /\ UNCHANGED cache
       ELSE /\ evaluating' = (evaluating \cup {ctl.scope}) \ {ctl.scope}
            /\ cache' = cache_result(cache, ctl.scope, unit.res)
            /\ ctl' = Return(unit.res)
            /\ hist' = [hist EXCEPT !.returned = Append(@, Returned(ctl.scope, unit.res)),
                                     !.reentered = Entered]
            /\ UNCHANGED stack
    /\ UNCHANGED <<applied, load_vars, docs, entry, solids, runs>>

\* A BuiltIn scope that is not cached: the built-in is evaluated at once.
eval_scope_built_in ==
    /\ CanCall("eval_scope")
    /\ ~is_evaluating(ctl.scope)
    /\ ~IsSome(cache_get(ctl.scope))
    /\ ctl.scope.kind = "BuiltIn"
    /\ LET built_in == get_built_in_func(ctl.scope.name)
           out == IF IsSome(built_in)
                  THEN built_in_eval(Unwrap(built_in), solids, ctl.scope,
                                     push_built_in(ctl.context, ctl.scope.name))
                  ELSE SolidErr(eval_err(ctl.context,
                                         ErrorType("BuiltInNotFound", ctl.scope.name)),
                                solids) IN
       /\ solids' = out.solids
       /\ evaluating' = (evaluating \cup {ctl.scope}) \ {ctl.scope}
       /\ cache' = cache_result(cache, ctl.scope, out.res)
       /\ ctl' = Return(out.res)
       /\ hist' = [hist EXCEPT
              !.executed = IF IsSome(built_in) THEN Append(@, ctl.scope) ELSE @,
              !.returned = Append(@, Returned(ctl.scope, out.res)),
              !.reentered = Entered]
    /\ UNCHANGED <<applied, load_vars, docs, entry, stack, runs>>

\* An eval_scope that takes the scope out of the evaluating set only when
\* eval_scope_unchecked returned a value.
eval_scope_return_keep_failed ==
    /\ Returning("eval_scope")
    /\ evaluating' = IF ctl.res.ok THEN evaluating \ {Top.scope} ELSE evaluating
    /\ cache' = cache_result(cache, Top.scope, ctl.res)
    /\ stack' = Pop
    /\ hist' = [hist EXCEPT !.returned = Append(@, Returned(Top.scope, ctl.res))]
    /\ UNCHANGED <<applied, load_vars, docs, entry, solids, ctl, runs>>
\* eval_scope after eval_scope_unchecked returned (scope.rs:66-72).
eval_scope_return ==
    /\ Returning("eval_scope")
    /\ evaluating' = evaluating \ {Top.scope}
    /\ cache' = cache_result(cache, Top.scope, ctl.res)
    /\ stack' = Pop
    /\ hist' = [hist EXCEPT !.returned = Append(@, Returned(Top.scope, ctl.res))]
    /\ UNCHANGED <<applied, load_vars, docs, entry, solids, ctl, runs>>

(***************************************************************************)
(* eval_expr, eval_unary_expr, eval_binary_expr (eval/mod.rs).             *)
(***************************************************************************)
eval_expr_number ==
    /\ CanCall("eval_expr")
    /\ ctl.expr.k = "Number"
    /\ ctl' = Return(Ok(ctl.expr.val))
    /\ UNCHANGED <<applied, load_vars, docs, entry, evaluating, cache, solids, stack, runs, hist>>

eval_unary_expr ==
    /\ CanCall("eval_expr")
    /\ ctl.expr.k = "Unary"
    /\ stack' = Append(stack, UnaryFrame)
    /\ ctl' = CallEvalExpr(ctl.expr.unit, ctl.scope, ctl.context)
    /\ UNCHANGED <<applied, load_vars, docs, entry, evaluating, cache, solids, runs, hist>>

\* mod.rs:42-45: the operand is negated; its error is passed on by `?`.
unary_op(store, val) ==
    IF IsNumber(val) THEN SolidOk(f64_neg(val), store) ELSE solids_negate(store, val)

eval_unary_return ==
    /\ Returning("eval_unary_expr")
    /\ LET out == IF ctl.res.ok THEN unary_op(solids, ctl.res.val)
                  ELSE SolidErr(ctl.res, solids) IN
       /\ solids' = out.solids
       /\ ctl' = Return(out.res)
    /\ stack' = Pop
    /\ UNCHANGED <<applied, load_vars, docs, entry, evaluating, cache, runs, hist>>

eval_binary_expr ==
    /\ CanCall("eval_expr")
    /\ ctl.expr.k = "Binary"
    /\ stack' = Append(stack, BinaryLhsFrame(ctl.expr, ctl.scope, ctl.context))
    /\ ctl' = CallEvalExpr(ctl.expr.lhs, ctl.scope, ctl.context)
    /\ UNCHANGED <<applied, load_vars, docs, entry, evaluating, cache, solids, runs, hist>>

\* An eval_binary_expr that evaluates the right operand whatever the left
\* operand returned, and reports the error of the left operand afterwards.
eval_binary_lhs_return_eager ==
    /\ Returning("binary_lhs")
    /\ stack' = Append(Pop, BinaryRhsFrame(IF ctl.res.ok THEN ctl.res.val ELSE NoValue,
                                           Top.expr, Top.context))
    /\ ctl' = CallEvalExpr(Top.expr.rhs, Top.scope, Top.context)
    /\ UNCHANGED <<applied, load_vars, docs, entry, evaluating, cache, solids, runs, hist>>
\* mod.rs:77-78: the left operand returned; its error is passed on by `?`,
\* otherwise the right operand is evaluated.
eval_binary_lhs_return ==
    /\ Returning("binary_lhs")
    /\ IF ctl.res.ok
       THEN /\ stack' = Append(Pop, BinaryRhsFrame(ctl.res.val, Top.expr, Top.context))
            /\ ctl' = CallEvalExpr(Top.expr.rhs, Top.scope, Top.context)
       ELSE /\ stack' = Pop
            /\ UNCHANGED ctl
    /\ UNCHANGED <<applied, load_vars, docs, entry, evaluating, cache, solids, runs, hist>>

\* A match that has an arm for the Div of two Solids: their intersection.
binary_op_div_solids(store, lhsv, op, rhsv, context) ==
    IF IsNumber(lhsv) /\ IsNumber(rhsv)
    THEN LET val == CASE op = "Add" -> f64_add(lhsv, rhsv)
                      [] op = "Sub" -> f64_sub(lhsv, rhsv)
                      [] op = "Mul" -> f64_mul(lhsv, rhsv)
                      [] OTHER -> f64_div(lhsv, rhsv) IN
         IF ~is_finite(val)
         THEN SolidErr(eval_err(context, ErrorType("NumExprNotFinite", "")), store)
         ELSE SolidOk(val, store)
    ELSE IF IsSolid(lhsv) /\ IsSolid(rhsv)
    THEN CASE op = "Add" -> solids_union(store, lhsv, rhsv)
           [] op = "Sub" -> solids_difference(store, lhsv, rhsv)
           [] OTHER -> solids_intersection(store, lhsv, rhsv)
    ELSE SolidErr(eval_err(context,
                           ErrorFields("BinaryOpWrongTypes", op, <<>>,
                                       type_name(lhsv), type_name(rhsv))), store)
\* mod.rs:80-105
binary_op(store, lhsv, op, rhsv, context) ==
    IF IsNumber(lhsv) /\ IsNumber(rhsv)
    THEN LET val == CASE op = "Add" -> f64_add(lhsv, rhsv)
                      [] op = "Sub" -> f64_sub(lhsv, rhsv)
                      [] op = "Mul" -> f64_mul(lhsv, rhsv)
                      [] OTHER -> f64_div(lhsv, rhsv) IN
         IF ~is_finite(val)
         THEN SolidErr(eval_err(context, ErrorType("NumExprNotFinite", "")), store)
         ELSE SolidOk(val, store)
    ELSE IF IsSolid(lhsv) /\ IsSolid(rhsv) /\ op # "Div"
    THEN CASE op = "Add" -> solids_union(store, lhsv, rhsv)
           [] op = "Sub" -> solids_difference(store, lhsv, rhsv)
           [] OTHER -> solids_intersection(store, lhsv, rhsv)
    ELSE SolidErr(eval_err(context,
                           ErrorFields("BinaryOpWrongTypes", op, <<>>,
                                       type_name(lhsv), type_name(rhsv))), store)

eval_binary_rhs_return ==
    /\ Returning("binary_rhs")
    /\ LET out == IF ctl.res.ok
                  THEN binary_op(solids, Top.lhsv, Top.expr.op, ctl.res.val, Top.context)
                  ELSE SolidErr(ctl.res, solids) IN
       /\ solids' = out.solids
       /\ ctl' = Return(out.res)
    /\ stack' = Pop
    /\ UNCHANGED <<applied, load_vars, docs, entry, evaluating, cache, runs, hist>>

(***************************************************************************)
(* eval_func_call_expr (eval/mod.rs:108-174).                              *)
(***************************************************************************)
\* mod.rs:114-117; the scope of an expression has a document of the DocSet.
call_doc_path(scope) == Unwrap(scope_doc(scope))
this_doc(scope) == docs[call_doc_path(scope)]
call_context(c) == push_func_call(c.context, c.expr, call_doc_path(c.scope))

\* eval_func_call_expr that looks for a function of the document before it
\* looks for a parameter or a built-in.
resolve_call_func_first(expr, scope, doc) ==
    IF IsSome(expr.import_part) THEN "Import"
    ELSE IF contains_key(doc.funcs, expr.name_part) THEN "Func"
    ELSE IF contains_key(scope_args(scope), expr.name_part) THEN "Argument"
    ELSE IF IsSome(get_built_in_func(expr.name_part)) THEN "BuiltIn"
    ELSE "NoMatch"
\* The branch of eval_func_call_expr that a call takes.
resolve_call(expr, scope, doc) ==
    IF IsSome(expr.import_part) THEN "Import"
    ELSE IF contains_key(scope_args(scope), expr.name_part) THEN "Argument"
    ELSE IF IsSome(get_built_in_func(expr.name_part)) THEN "BuiltIn"
    ELSE IF contains_key(doc.funcs, expr.name_part) THEN "Func"
    ELSE "NoMatch"

CanResolve(branch) ==
    /\ CanCall("eval_expr")
    /\ ctl.expr.k = "FuncCall"
    /\ resolve_call(ctl.expr, ctl.scope, this_doc(ctl.scope)) = branch

Resolved(branch) ==
    [hist EXCEPT !.resolved =
        Append(@, [expr |-> ctl.expr, scope |-> ctl.scope, branch |-> branch])]

\* mod.rs:120-139: the callee of a qualified call.
ImportFailed(res) == [ok |-> FALSE, res |-> res, func_def |-> NoFuncDef, path |-> <<>>]
Imported(func_def, path) ==
    [ok |-> TRUE, res |-> Err(NoError), func_def |-> func_def, path |-> path]
\* A qualified call that falls back on the function of that name of the
\* calling document when the imported document has none.
resolve_import_fallback(expr, doc_path, doc, context) ==
    LET import_part == Unwrap(expr.import_part) IN
    IF ~contains_key(doc.imports, import_part)
    THEN ImportFailed(eval_err(context, ErrorType("ImportNotFound", import_part)))
    ELSE LET path == import_path(doc_path, doc.imports[import_part]) IN
         IF ~path.ok THEN ImportFailed(bare_err(path.err))
         ELSE IF ~contains_key(docs, path.path)
         THEN ImportFailed(eval_err(context, ErrorPath("DocNotFound", path.path)))
         ELSE IF contains_key(docs[path.path].funcs, expr.name_part)
         THEN Imported(docs[path.path].funcs[expr.name_part], path.path)
         ELSE IF contains_key(doc.funcs, expr.name_part)
         THEN Imported(doc.funcs[expr.name_part], doc_path)
         ELSE ImportFailed(eval_err(context, ErrorType("FuncNotFound", expr.name_part)))
resolve_import(expr, doc_path, doc, context) ==
    LET import_part == Unwrap(expr.import_part) IN
    IF ~contains_key(doc.imports, import_part)
    THEN ImportFailed(eval_err(context, ErrorType("ImportNotFound", import_part)))
    ELSE LET path == import_path(doc_path, doc.imports[import_part]) IN
         IF ~path.ok THEN ImportFailed(bare_err(path.err))
         ELSE IF ~contains_key(docs, path.path)
         THEN ImportFailed(eval_err(context, ErrorPath("DocNotFound", path.path)))
         ELSE IF ~contains_key(docs[path.path].funcs, expr.name_part)
         THEN ImportFailed(eval_err(context, ErrorType("FuncNotFound", expr.name_part)))
         ELSE Imported(docs[path.path].funcs[expr.name_part], path.path)

eval_func_call_import ==
    /\ CanResolve("Import")
    /\ LET callee == resolve_import(ctl.expr, call_doc_path(ctl.scope),
                                    this_doc(ctl.scope), call_context(ctl)) IN
       ctl' = IF callee.ok
              THEN Supplied(Binding("func", ctl.expr, callee.func_def, "", callee.path,
                                    ctl.scope, call_context(ctl)))
              ELSE Return(callee.res)
    /\ hist' = Resolved("Import")
    /\ UNCHANGED <<applied, load_vars, docs, entry, evaluating, cache, solids, stack, runs>>

\* An Argument branch that refuses a call that carries arguments.
eval_func_call_argument_strict ==
    /\ CanResolve("Argument")
    /\ ctl' = IF ctl.expr.args.k = "None"
              THEN Return(Ok(scope_args(ctl.scope)[ctl.expr.name_part]))
              ELSE Return(eval_err(call_context(ctl), ErrorType("TooManyArgs", "")))
    /\ hist' = Resolved("Argument")
    /\ UNCHANGED <<applied, load_vars, docs, entry, evaluating, cache, solids, stack, runs>>
eval_func_call_argument ==
    /\ CanResolve("Argument")
    /\ ctl' = Return(Ok(scope_args(ctl.scope)[ctl.expr.name_part]))
    /\ hist' = Resolved("Argument")
    /\ UNCHANGED <<applied, load_vars, docs, entry, evaluating, cache, solids, stack, runs>>

eval_func_call_built_in ==
    /\ CanResolve("BuiltIn")
    /\ ctl' = Supplied(Binding("built_in", ctl.expr, NoFuncDef, ctl.expr.name_part, <<>>,
                               ctl.scope, call_context(ctl)))
    /\ hist' = Resolved("BuiltIn")
    /\ UNCHANGED <<applied, load_vars, docs, entry, evaluating, cache, solids, stack, runs>>

eval_func_call_regular ==
    /\ CanResolve("Func")
    /\ ctl' = Supplied(Binding("func", ctl.expr,
                               this_doc(ctl.scope).funcs[ctl.expr.name_part], "",
                               call_doc_path(ctl.scope), ctl.scope, call_context(ctl)))
    /\ hist' = Resolved("Func")
    /\ UNCHANGED <<applied, load_vars, docs, entry, evaluating, cache, solids, stack, runs>>

eval_func_call_no_match ==
    /\ CanResolve("NoMatch")
    /\ ctl' = Return(eval_err(call_context(ctl),
                              ErrorType("FuncNotFound", ctl.expr.name_part)))
    /\ hist' = Resolved("NoMatch")
    /\ UNCHANGED <<applied, load_vars, docs, entry, evaluating, cache, solids, stack, runs>>

(***************************************************************************)
(* Argument binding: eval_func_call_args (eval/mod.rs:176-257) and         *)
(* eval_built_in_call_args (eval/builtins/mod.rs:91-147).                  *)
(***************************************************************************)
\* One turn of the loop over the supplied arguments: the loop is over
\* (Done), it returns an error (Fail), or it evaluates the next argument
\* expression (EvalArg) and binds the value to `name`.
Done == [act |-> "done", res |-> Err(NoError), expr |-> Num(0), name |-> ""]
Fail(res) == [act |-> "fail", res |-> res, expr |-> Num(0), name |-> ""]
EvalArg(expr, name) == [act |-> "eval", res |-> Err(NoError), expr |-> expr, name |-> name]

\* A lookup that pairs every argument with the first parameter.
get_arg_def_first(defs, arg_index) ==
    IF arg_index <= Len(defs) THEN Some(defs[1]) ELSE None
\* arg_defs.get(arg_index), arg_index counted from 1.
get_arg_def(defs, arg_index) ==
    IF arg_index <= Len(defs) THEN Some(defs[arg_index]) ELSE None

\* arg_defs.iter().all(|f| f.name != name)
no_arg_named(defs, name) == \A i \in 1..Len(defs) : defs[i].name # name

\* eval_supplied_func_call_args; `key` is the named argument the iteration of
\* the HashMap yields next.
eval_supplied_func_call_args(b, key) ==
    LET call_args == b.call.args
        defs == b.func_def.args IN
    IF call_args.k = "None" THEN Done
    ELSE IF ~IsSome(defs) THEN Fail(eval_err(b.context, ErrorType("TooManyArgs", "")))
    ELSE IF call_args.k = "Positional"
    THEN IF b.index > Len(call_args.args) THEN Done
         ELSE IF ~IsSome(get_arg_def(Unwrap(defs), b.index))
         THEN Fail(eval_err(b.context, ErrorType("TooManyArgs", "")))
         ELSE EvalArg(call_args.args[b.index],
                      Unwrap(get_arg_def(Unwrap(defs), b.index)).name)
    ELSE IF b.todo = {} THEN Done
         ELSE IF no_arg_named(Unwrap(defs), key)
         THEN Fail(eval_err(b.context, ErrorType("InvalidNamedArg", key)))
         ELSE EvalArg(call_args.args[key], key)

\* eval_supplied_built_in_call_args
eval_supplied_built_in_call_args(b, key) ==
    LET call_args == b.call.args
        defs == arg_defs(b.built_in) IN
    IF call_args.k = "None" THEN Done
    ELSE IF call_args.k = "Positional"
    THEN IF b.index > Len(call_args.args) THEN Done
         ELSE IF ~IsSome(get_arg_def(defs, b.index))
         THEN Fail(eval_err(b.context, ErrorType("TooManyArgs", "")))
         ELSE EvalArg(call_args.args[b.index], Unwrap(get_arg_def(defs, b.index)).name)
    ELSE IF b.todo = {} THEN Done
         ELSE IF no_arg_named(defs, key)
         THEN Fail(eval_err(b.context, ErrorType("InvalidNamedArg", key)))
         ELSE EvalArg(call_args.args[key], key)

\* The keys a HashMap iteration may yield next: any key not yet visited.
NextKeys(b) == IF b.todo = {} THEN {""} ELSE b.todo

eval_supplied_args ==
    /\ CanCall("supplied")
    /\ \E key \in NextKeys(ctl.b) :
         LET turn == IF ctl.b.callee = "func"
                     THEN eval_supplied_func_call_args(ctl.b, key)
                     ELSE eval_supplied_built_in_call_args(ctl.b, key)
             after == [ctl.b EXCEPT !.index = @ + 1, !.todo = @ \ {key}] IN
         /\ CASE turn.act = "done" -> ctl' = Defaults(ctl.b) /\ UNCHANGED stack
              [] turn.act = "fail" -> ctl' = Return(turn.res) /\ UNCHANGED stack
              [] OTHER -> /\ stack' = Append(stack, SuppliedFrame(after, turn.name))
                          /\ ctl' = CallEvalExpr(turn.expr, ctl.b.scope, ctl.b.context)
         /\ hist' = [hist EXCEPT !.turns = Append(@, [b |-> ctl.b, key |-> key,
                                                      act |-> turn.act,
                                                      res |-> turn.res])]
    /\ UNCHANGED <<applied, load_vars, docs, entry, evaluating, cache, solids, runs>>

\* arg_vals.insert(name, val) after `self.eval_expr(..)?`.
bind_supplied(b, name, val) == [b EXCEPT !.args = map_insert(@, name, val)]

\* History: the value of a supplied argument, by name and in order.
Evaluated(b, name, val) ==
    [b EXCEPT !.supplied = map_insert(@, name, val), !.values = Append(@, val)]

eval_supplied_arg_return ==
    /\ Returning("supplied_arg")
    /\ stack' = Pop
    /\ ctl' = IF ctl.res.ok
              THEN Supplied(bind_supplied(Evaluated(Top.b, Top.name, ctl.res.val),
                                          Top.name, ctl.res.val))
              ELSE ctl
    /\ UNCHANGED <<applied, load_vars, docs, entry, evaluating, cache, solids, runs, hist>>

\* add_default_func_def_args that passes over a parameter without a default.
next_default_lenient(func_def, args) ==
    LET defs == IF IsSome(func_def.args) THEN Unwrap(func_def.args) ELSE <<>>
        unbound == {i \in 1..Len(defs) : /\ ~contains_key(args, defs[i].name)
                                         /\ IsSome(defs[i].default)} IN
    IF unbound = {} THEN None
    ELSE Some(defs[CHOOSE i \in unbound : \A j \in unbound : i <= j])
\* add_default_func_def_args: the first parameter that is not in args yet.
next_default(func_def, args) ==
    LET defs == IF IsSome(func_def.args) THEN Unwrap(func_def.args) ELSE <<>>
        unbound == {i \in 1..Len(defs) : ~contains_key(args, defs[i].name)} IN
    IF unbound = {} THEN None
    ELSE Some(defs[CHOOSE i \in unbound : \A j \in unbound : i <= j])

\* add_default_func_def_args that makes the ArgDefault scope with the document
\* of the caller.
add_default_func_def_args_of_caller ==
    /\ CanCall("defaults")
    /\ ctl.b.callee = "func"
    /\ IsSome(next_default(ctl.b.func_def, ctl.b.args))
    /\ LET def_arg == Unwrap(next_default(ctl.b.func_def, ctl.b.args)) IN
       /\ stack' = Append(stack, DefaultFrame(ctl.b, def_arg.name))
       /\ ctl' = CallEvalScope(ScopeArgDefault(call_doc_path(ctl.b.scope),
                                               ctl.b.func_def.name, def_arg.name),
                               ctl.b.context)
    /\ UNCHANGED <<applied, load_vars, docs, entry, evaluating, cache, solids, runs, hist>>
add_default_func_def_args ==
    /\ CanCall("defaults")
    /\ ctl.b.callee = "func"
    /\ IsSome(next_default(ctl.b.func_def, ctl.b.args))
    /\ LET def_arg == Unwrap(next_default(ctl.b.func_def, ctl.b.args)) IN
       /\ stack' = Append(stack, DefaultFrame(ctl.b, def_arg.name))
       /\ ctl' = CallEvalScope(ScopeArgDefault(ctl.b.def_doc_path, ctl.b.func_def.name,
                                               def_arg.name), ctl.b.context)
    /\ UNCHANGED <<applied, load_vars, docs, entry, evaluating, cache, solids, runs, hist>>

\* args.insert(name, val) after `self.eval_scope(..)?`.
bind_default(b, name, val) == [b EXCEPT !.args = map_insert(@, name, val)]

add_default_return ==
    /\ Returning("default_arg")
    /\ stack' = Pop
    /\ ctl' = IF ctl.res.ok THEN Defaults(bind_default(Top.b, Top.name, ctl.res.val))
              ELSE ctl
    /\ UNCHANGED <<applied, load_vars, docs, entry, evaluating, cache, solids, runs, hist>>

Called(b, scope) ==
    [hist EXCEPT !.calls = Append(@, [b |-> b, scope |-> scope])]

\* A callee scope that keeps the document of the caller.
func_call_scope_of_caller(b) ==
    ScopeFuncCall(b.call.name_part, b.args, call_doc_path(b.scope))
\* mod.rs:141-146 and 161-166: the scope of the callee.
func_call_scope(b) == ScopeFuncCall(b.call.name_part, b.args, b.def_doc_path)

\* Every parameter is bound: the call goes on with eval_scope.
eval_func_call_scope ==
    /\ CanCall("defaults")
    /\ ctl.b.callee = "func"
    /\ ~IsSome(next_default(ctl.b.func_def, ctl.b.args))
    /\ ctl' = CallEvalScope(func_call_scope(ctl.b), ctl.b.context)
    /\ hist' = Called(ctl.b, func_call_scope(ctl.b))
    /\ UNCHANGED <<applied, load_vars, docs, entry, evaluating, cache, solids, stack, runs>>

\* A BuiltIn scope that keeps the form of the argument list of the call.
eval_built_in_call_scope_by_form ==
    /\ CanCall("defaults")
    /\ ctl.b.callee = "built_in"
    /\ LET bound == add_default_args(ctl.b.built_in, ctl.b.args, ctl.b.context)
           scope == [ScopeBuiltIn(ctl.b.call.name_part, bound.args)
                        EXCEPT !.arg = ctl.b.call.args.k] IN
       IF bound.ok
       THEN /\ ctl' = CallEvalScope(scope, ctl.b.context)
            /\ hist' = Called([ctl.b EXCEPT !.args = bound.args], scope)
       ELSE /\ ctl' = Return(Err(bound.err))
            /\ UNCHANGED hist
    /\ UNCHANGED <<applied, load_vars, docs, entry, evaluating, cache, solids, stack, runs>>
\* builtins/mod.rs:100 and mod.rs:153-158.
eval_built_in_call_scope ==
    /\ CanCall("defaults")
    /\ ctl.b.callee = "built_in"
    /\ LET bound == add_default_args(ctl.b.built_in, ctl.b.args, ctl.b.context)
           scope == ScopeBuiltIn(ctl.b.call.name_part, bound.args) IN
       IF bound.ok
       THEN /\ ctl' = CallEvalScope(scope, ctl.b.context)
            /\ hist' = Called([ctl.b EXCEPT !.args = bound.args], scope)
       ELSE /\ ctl' = Return(Err(bound.err))
            /\ UNCHANGED hist
    /\ UNCHANGED <<applied, load_vars, docs, entry, evaluating, cache, solids, stack, runs>>

(***************************************************************************)
(* The DocSets and entries the evaluator is run on.                        *)
(***************************************************************************)
Main == <<"main">>
Lib == <<"lib">>

Div0 == Bin(Num(1), "Div", Num(0))
NegCube == Neg(Ref("Cube"))

\* The forms of argument list of a call of `f`.
CallArgForms ==
    {CallArgsNone}
    \cup {Positional(<<e>>) : e \in {Num(2), Ref("x"), Div0}}
    \cup {Positional(<<e1, e2>>) : e1 \in {Num(2), Div0}, e2 \in {Num(3), Ref("nosuch")}}
    \cup {Named("x" :> Num(2)), Named("y" :> Num(3)), Named("z" :> Num(2))}
    \cup {Named("x" :> e1 @@ "y" :> e2) :
              e1 \in {Num(2), Div0, NegCube}, e2 \in {Num(3), Ref("nosuch"), NegCube}}
    \cup {Named("x" :> e1 @@ "z" :> Num(3)) : e1 \in {Num(2), Div0}}

\* The bodies of the entry function `a` of main: a call of f or of lib.f, the
\* same call twice, or an expression of a literal with more digits than an
\* f64 holds.
CallsOfF == {FuncCall(imp, "f", args) : imp \in {None, Some("lib")}, args \in CallArgForms}
BodiesOfA ==
    CallsOfF
    \cup {HugeNum, Neg(HugeNum), Bin(HugeNum, "Add", Num(1)), Bin(Num(1), "Div", HugeNum),
          Bin(HugeNum, "Mul", Num(0)), FuncCall(None, "f", Positional(<<HugeNum>>)),
          FuncCall(None, "Sin", Positional(<<HugeNum>>)),
          FuncCall(None, "Tan", Positional(<<HugeNum>>))}
    \cup {Bin(c, "Add", c) : c \in {FuncCall(None, "f", args) :
              args \in {CallArgsNone, Positional(<<Num(2)>>),
                        Named("x" :> Num(2) @@ "y" :> Num(3))}}}
    \cup {Bin(FuncCall(None, "f", Positional(<<Num(2)>>)), "Add",
              FuncCall(None, "f", Positional(<<Num(3)>>)))}

\* The parameter lists of f.
ParamsOfF ==
    {None,
     Some(<<ArgDef("x", None)>>),
     Some(<<ArgDef("x", None), ArgDef("y", Some(Num(4)))>>),
     Some(<<ArgDef("x", Some(Ref("x"))), ArgDef("y", None)>>),
     Some(<<ArgDef("x", Some(Ref("f")))>>),
     Some(<<ArgDef("Sin", Some(Num(6))), ArgDef("x", Some(Num(1)))>>)}

\* The bodies of f.
BodiesOfF ==
    {Num(3),
     Ref("x"),
     Bin(Ref("x"), "Add", Ref("y")),
     Ref("a"),
     Bin(Ref("Sin"), "Add", FuncCall(None, "Cos", Positional(<<Num(0)>>))),
     FuncCall(None, "Sin", Positional(<<Ref("x"), Num(1)>>)),
     FuncCall(None, "f", Positional(<<Ref("x")>>)),
     FuncCall(None, "f", Positional(<<Bin(Ref("x"), "Add", Num(1))>>)),
     FuncCall(None, "f", Positional(<<Bin(Ref("x"), "Mul", Num(0))>>)),
     FuncCall(None, "x", Positional(<<Div0, NegCube>>)),
     FuncCall(Some("lib"), "g", Positional(<<Ref("x")>>)),
     FuncCall(Some("lib"), "x", CallArgsNone),
     FuncCall(Some("lib"), "Sin", CallArgsNone),
     FuncCall(Some("lib"), "a", CallArgsNone),
     FuncCall(Some("nolib"), "f", CallArgsNone),
     FuncCall(Some("gone"), "f", CallArgsNone),
     FuncCall(Some("up"), "f", CallArgsNone)}

\* main: the entry a, the function f, and functions whose names are also the
\* name of a parameter of f (x) or of a built-in (Sin, Cos, Cube).  Its
\* imports are lib, a document that is not in the DocSet (gone) and a path
\* above the directory of main (up): eval_function takes any DocSet, not
\* only one that parse_all returned.
MainDoc(body_a, params_f, body_f) ==
    Document("lib" :> Import("lib", <<"lib">>)
             @@ "gone" :> Import("gone", <<"gone">>)
             @@ "up" :> Import("up", <<"..", "up">>),
             "a" :> FuncDef("a", None, body_a)
             @@ "f" :> FuncDef("f", params_f, body_f)
             @@ "x" :> FuncDef("x", None, Num(5))
             @@ "Sin" :> FuncDef("Sin", None, Num(7))
             @@ "Cos" :> FuncDef("Cos", None, Num(7))
             @@ "Cube" :> FuncDef("Cube", None, Num(7)))

\* lib: functions with the names of those of main, and g, whose body and
\* default use unqualified names.
LibDoc ==
    Document(EmptyMap,
             "f" :> FuncDef("f", Some(<<ArgDef("x", Some(Num(8))),
                                        ArgDef("y", Some(Ref("x")))>>),
                            Bin(Ref("x"), "Mul", Ref("y")))
             @@ "x" :> FuncDef("x", None, Num(9))
             @@ "g" :> FuncDef("g", Some(<<ArgDef("y", None), ArgDef("w", Some(Ref("x")))>>),
                               Bin(Bin(Ref("y"), "Mul", Num(100)), "Add",
                                   Bin(Ref("x"), "Add", Ref("w")))))

Program(body_a, params_f, body_f) ==
    [docs |-> Main :> MainDoc(body_a, params_f, body_f) @@ Lib :> LibDoc,
     entry |-> [doc_path |-> Main, func_name |-> "a"]]

\* The programs of src/tests/eval.rs and of tan_not_finite (src/tests/math.rs),
\* with the result each test expects.
OnePlusOne == Bin(Num(1), "Add", Num(1))
TestDoc(imports, funcs) == Main :> Document(imports, funcs)
Test(test_docs, expect) ==
    [docs |-> test_docs, entry |-> [doc_path |-> Main, func_name |-> "a"],
     expect |-> expect]
Tests ==
    {Test(TestDoc(EmptyMap, "a" :> FuncDef("a", None, OnePlusOne)), Ok(Number(2))),
     Test(TestDoc(EmptyMap, "a" :> FuncDef("a", None, Ref("b"))
                            @@ "b" :> FuncDef("b", None, OnePlusOne)), Ok(Number(2))),
     Test(TestDoc(EmptyMap,
                  "a" :> FuncDef("a", None, FuncCall(None, "b", Positional(<<Num(1)>>)))
                  @@ "b" :> FuncDef("b", Some(<<ArgDef("a", None)>>),
                                    Bin(Ref("a"), "Add", Num(1)))), Ok(Number(2))),
     Test(TestDoc(EmptyMap,
                  "a" :> FuncDef("a", None, FuncCall(None, "b", Named("a" :> Num(1))))
                  @@ "b" :> FuncDef("b", Some(<<ArgDef("a", Some(Num(1))),
                                                ArgDef("b", Some(Num(1)))>>),
                                    Bin(Ref("a"), "Add", Ref("b")))), Ok(Number(2))),
     Test(TestDoc("b" :> Import("b", <<"b">>),
                  "a" :> FuncDef("a", None,
                                 Bin(FuncCall(Some("b"), "c", CallArgsNone), "Add", Num(1))))
          @@ <<"b">> :> Document(EmptyMap, "c" :> FuncDef("c", None, Num(1))),
          Ok(Number(2))),
     Test(TestDoc(EmptyMap,
                  "a" :> FuncDef("a", None,
                                 FuncCall(None, "Tan", Positional(<<Num(90)>>)))),
          Err(EvalError(ErrorType("NumExprNotFinite", ""),
                        <<[entry_type |-> "BuiltIn", name |-> "Tan"],
                          [entry_type |-> "FuncCall",
                           text |-> FuncCall(None, "Tan", Positional(<<Num(90)>>)),
                           doc |-> Main],
                          [entry_type |-> "FuncDef", name |-> "a", doc |-> Main]>>)))}

\* The same documents with f as the entry: an entry that has parameters.
EntryWithParams(params_f, body_f) ==
    [docs |-> Program(Num(3), params_f, body_f).docs,
     entry |-> [doc_path |-> Main, func_name |-> "f"]]

\* One callee called in the three forms with the same values: the built-in
\* Cube as `Cube`, `Cube(1)` and `Cube(size = 1)`, the arguments of h, which
\* returns the last; and g(y = 2) = y * 3 as `g(2)`, `g(y = 2)` and `g`.
CubeForms ==
    <<Ref("Cube"), FuncCall(None, "Cube", Positional(<<Num(1)>>)),
      FuncCall(None, "Cube", Named("size" :> Num(1)))>>
CallFormPrograms ==
    {[docs |-> TestDoc(EmptyMap,
                       "a" :> FuncDef("a", None, FuncCall(None, "h", Positional(CubeForms)))
                       @@ "h" :> FuncDef("h", Some(<<ArgDef("p", None), ArgDef("q", None),
                                                     ArgDef("r", None)>>), Ref("r"))),
      entry |-> [doc_path |-> Main, func_name |-> "a"]],
     [docs |-> TestDoc(EmptyMap,
                       "a" :> FuncDef("a", None,
                                      Bin(Bin(FuncCall(None, "g", Positional(<<Num(2)>>)),
                                              "Add",
                                              FuncCall(None, "g", Named("y" :> Num(2)))),
                                          "Add", Ref("g")))
                       @@ "g" :> FuncDef("g", Some(<<ArgDef("y", Some(Num(2)))>>),
                                         Bin(Ref("y"), "Mul", Num(3)))),
      entry |-> [doc_path |-> Main, func_name |-> "a"]]}

\* Entries that the DocSet does not have: a document that is not a key, and
\* a function that main does not define.
MissingEntries ==
    {[docs |-> Program(Ref("f"), None, Num(3)).docs,
      entry |-> [doc_path |-> <<"nodoc">>, func_name |-> "a"]],
     [docs |-> Program(Ref("f"), None, Num(3)).docs,
      entry |-> [doc_path |-> Main, func_name |-> "nofunc"]]}

Programs ==
    CallFormPrograms \cup MissingEntries \cup
    {Program(body_a, params_f, body_f) :
        body_a \in BodiesOfA, params_f \in ParamsOfF, body_f \in BodiesOfF}
    \cup {EntryWithParams(params_f, body_f) :
        params_f \in ParamsOfF, body_f \in BodiesOfF}
    \cup {[docs |-> t.docs, entry |-> t.entry] : t \in Tests}

(***************************************************************************)
(* The specification.                                                      *)
(***************************************************************************)
Init ==
    /\ \E p \in Programs : docs = p.docs /\ entry = p.entry
    /\ evaluating = {}
    /\ cache = EmptyMap
    /\ solids = <<>>
    /\ ctl = Idle
    /\ stack = <<>>
    /\ runs = <<>>
    /\ hist = EmptyHist
    /\ NotLoading
    /\ applied = NoOp

Next ==
    \/ eval_function
    \/ eval_function_return
    \/ stack_overflow
    \/ eval_scope_recursion
    \/ eval_scope_cached
    \/ eval_scope_expr
    \/ eval_scope_built_in
    \/ eval_scope_return
    \/ eval_expr_number
    \/ eval_unary_expr
    \/ eval_unary_return
    \/ eval_binary_expr
    \/ eval_binary_lhs_return
    \/ eval_binary_rhs_return
    \/ eval_func_call_import
    \/ eval_func_call_argument
    \/ eval_func_call_built_in
    \/ eval_func_call_regular
    \/ eval_func_call_no_match
    \/ eval_supplied_args
    \/ eval_supplied_arg_return
    \/ add_default_func_def_args
    \/ add_default_return
    \/ eval_func_call_scope
    \/ eval_built_in_call_scope

Spec == Init /\ [][Next]_vars

(***************************************************************************)
(* The methods of SolidSet (src/src/solids.rs) applied to any SolidIds, in *)
(* any order, on a SolidSet that starts empty.  The ids are those of the   *)
(* Solids of the set, the two sentinels, and Regular ids of no Solid.      *)
(***************************************************************************)
NotEvaluating ==
    /\ docs = EmptyMap
    /\ entry = [doc_path |-> <<>>, func_name |-> ""]
    /\ evaluating = {}
    /\ cache = EmptyMap
    /\ ctl = Idle
    /\ stack = <<>>
    /\ runs = <<>>
    /\ hist = EmptyHist

SolidIds == {Empty, Universal} \cup {Regular(i) : i \in 0..MaxSolids}

\* The method applied, its operands, the Solids before it and its result.
SolidApplied(fn, lhs, rhs, before, res) ==
    [fn |-> fn, lhs |-> lhs, rhs |-> rhs, before |-> before, res |-> res]

SolidSetApply(fn, lhs, rhs, out) ==
    /\ Len(out.solids) <= MaxSolids
    /\ solids' = out.solids
    /\ applied' = SolidApplied(fn, lhs, rhs, solids, out.res)
    /\ UNCHANGED <<load_vars, docs, entry, evaluating, cache, ctl, stack, runs, hist>>

SolidSet_push ==
    \E size \in 1..2 :
        SolidSetApply("push", NoValue, NoValue,
                      solids_push(solids, Solid("cube", Number(size), NoValue)))

SolidSet_negate ==
    \E solid \in SolidIds :
        SolidSetApply("negate", solid, NoValue, solids_negate(solids, solid))

SolidSet_union ==
    \E lhs, rhs \in SolidIds :
        SolidSetApply("union", lhs, rhs, solids_union(solids, lhs, rhs))

SolidSet_intersection ==
    \E lhs, rhs \in SolidIds :
        SolidSetApply("intersection", lhs, rhs, solids_intersection(solids, lhs, rhs))

SolidSet_difference ==
    \E lhs, rhs \in SolidIds :
        SolidSetApply("difference", lhs, rhs, solids_difference(solids, lhs, rhs))

SolidInit ==
    /\ NotEvaluating
    /\ NotLoading
    /\ solids = <<>>
    /\ applied = NoOp

SolidNext ==
    \/ SolidSet_push
    \/ SolidSet_negate
    \/ SolidSet_union
    \/ SolidSet_intersection
    \/ SolidSet_difference

SolidSpec == SolidInit /\ [][SolidNext]_vars

(***************************************************************************)
(* parse_all (src/src/lib.rs:53-82) on the files that get_source serves.   *)
(* A file is kept as what parse_document makes of its text: a ParseError   *)
(* or a Document; a path that get_source has no file for gives             *)
(* ParseError::IO, as the FileSets of the tests do.                        *)
(***************************************************************************)
\* Ord of FQPath (derived on Vec<String>): lexicographic, the segments by
\* their bytes.
Segments == <<"..", "a", "b", "d", "main">>
segment_rank(seg) == CHOOSE i \in DOMAIN Segments : Segments[i] = seg
RECURSIVE path_less(_, _)
path_less(p, q) ==
    IF q = <<>> THEN FALSE
    ELSE IF p = <<>> THEN TRUE
    ELSE IF Head(p) = Head(q) THEN path_less(Tail(p), Tail(q))
    ELSE segment_rank(Head(p)) < segment_rank(Head(q))

\* BTreeSet::pop_first
first(set) == CHOOSE p \in set : \A q \in set \ {p} : path_less(p, q)

\* ParseResult of get_source, of parse_document and of parse_all.
ParseOk(v) == [ok |-> TRUE, val |-> v, err |-> ""]
ParseErr(e) == [ok |-> FALSE, val |-> EmptyMap, err |-> e]

\* get_source (FileSet::get_source of the tests)
get_source(path) ==
    IF contains_key(sources, path) THEN ParseOk(sources[path]) ELSE ParseErr("IO")

\* parse_document on the text of a file.
parse_document(src) == IF src.parses THEN ParseOk(src.doc) ELSE ParseErr("Parse")

\* A read that takes a file it cannot read or parse for an empty document.
read_document_or_default(current) ==
    IF ~get_source(current).ok THEN ParseOk(Document(EmptyMap, EmptyMap))
    ELSE IF ~parse_document(get_source(current).val).ok
    THEN ParseOk(Document(EmptyMap, EmptyMap))
    ELSE parse_document(get_source(current).val)
\* lib.rs:69-71: the source of the path is read and parsed; `?` passes the
\* error of get_source (or of the reader) and of parse_document on.
read_document(current) ==
    IF ~get_source(current).ok THEN ParseErr(get_source(current).err)
    ELSE parse_document(get_source(current).val)

\* lib.rs:72-74: the paths of the imports of the document.
import_paths(current, doc) ==
    {import_path(current, doc.imports[alias]) : alias \in DOMAIN doc.imports}

Running == [state |-> "running"]
ParseAllReturned(res) == [state |-> "returned", res |-> res]

\* lib.rs:62-65
parse_all_begin ==
    /\ loaded.state = "not_called"
    /\ to_parse' = {entry.doc_path}
    /\ parsed' = EmptyMap
    /\ loaded' = Running
    /\ UNCHANGED <<sources, reads, applied, eval_vars>>

\* lib.rs:67: the loop goes on while the set has a path.
Popped(current) ==
    /\ loaded.state = "running"
    /\ to_parse # {}
    /\ current = first(to_parse)

\* A loop that parses the path whether or not it was parsed before.
already_parsed_never(current) == FALSE
\* lib.rs:68: a path that was parsed is dropped.
already_parsed(current) == contains_key(parsed, current)

\* A loop that looks at the first path of the set and leaves it there when
\* the path was parsed before.
parse_all_skip_peek ==
    \E current \in to_parse :
        /\ Popped(current)
        /\ already_parsed(current)
        /\ UNCHANGED <<to_parse, sources, parsed, reads, loaded, applied, eval_vars>>
parse_all_skip ==
    \E current \in to_parse :
        /\ Popped(current)
        /\ already_parsed(current)
        /\ to_parse' = to_parse \ {current}
        /\ UNCHANGED <<sources, parsed, reads, loaded, applied, eval_vars>>

\* lib.rs:69: get_source fails, and `?` returns its error.
parse_all_io_error ==
    \E current \in to_parse :
        /\ Popped(current)
        /\ ~already_parsed(current)
        /\ ~get_source(current).ok
        /\ ~read_document(current).ok
        /\ to_parse' = to_parse \ {current}
        /\ reads' = Append(reads, current)
        /\ loaded' = ParseAllReturned(ParseErr(read_document(current).err))
        /\ UNCHANGED <<sources, parsed, applied, eval_vars>>

\* lib.rs:71: parse_document fails.
parse_all_parse_error ==
    \E current \in to_parse :
        /\ Popped(current)
        /\ ~already_parsed(current)
        /\ get_source(current).ok
        /\ ~read_document(current).ok
        /\ to_parse' = to_parse \ {current}
        /\ reads' = Append(reads, current)
        /\ loaded' = ParseAllReturned(ParseErr(read_document(current).err))
        /\ UNCHANGED <<sources, parsed, applied, eval_vars>>

\* lib.rs:73-75: the loop over doc.imports.values(), a HashMap: the imports
\* are met in any order, and the first whose path leaves the root ends
\* parse_all; the paths of those met before it were inserted.
parse_all_import_error ==
    \E current \in to_parse :
        /\ Popped(current)
        /\ ~already_parsed(current)
        /\ read_document(current).ok
        /\ LET doc == read_document(current).val IN
           \E outside \in {ip \in import_paths(current, doc) : ~ip.ok} :
           \E before \in SUBSET {ip.path : ip \in {i \in import_paths(current, doc) : i.ok}} :
               /\ to_parse' = (to_parse \ {current}) \cup before
               /\ loaded' = ParseAllReturned(ParseErr("ImportNotInDir"))
        /\ reads' = Append(reads, current)
        /\ UNCHANGED <<sources, parsed, applied, eval_vars>>

\* lib.rs:69-78: the document is parsed and its imports are to parse.
parse_all_parsed ==
    \E current \in to_parse :
        /\ Popped(current)
        /\ ~already_parsed(current)
        /\ read_document(current).ok
        /\ LET doc == read_document(current).val IN
           /\ \A ip \in import_paths(current, doc) : ip.ok
           /\ to_parse' = (to_parse \ {current})
                               \cup {ip.path : ip \in import_paths(current, doc)}
           /\ parsed' = map_insert(parsed, current, doc)
        /\ reads' = Append(reads, current)
        /\ UNCHANGED <<sources, loaded, applied, eval_vars>>

\* lib.rs:67, 81: the set is empty.
parse_all_return ==
    /\ loaded.state = "running"
    /\ to_parse = {}
    /\ loaded' = ParseAllReturned(ParseOk(parsed))
    /\ UNCHANGED <<sources, to_parse, parsed, reads, applied, eval_vars>>

\* The files: main, a, b and d/a, each missing, with a text that does not
\* parse, or a document with some of the imports a, b, d/a, ../b and main.
\* A document has one import for an alias (the last segment).
FilePaths == {<<"main">>, <<"a">>, <<"b">>, <<"d", "a">>}
ImportsOf(files) == [alias \in {Last(f) : f \in files} |->
                        Import(alias, CHOOSE f \in files : Last(f) = alias)]
ImportSets ==
    {{}, {<<"a">>}, {<<"b">>}, {<<"d", "a">>}, {<<"..", "b">>}, {<<"main">>},
     {<<"a">>, <<"b">>}, {<<"d", "a">>, <<"b">>}, {<<"a">>, <<"..", "b">>},
     {<<"..", "a">>, <<"b">>}}
SourceText(parses, doc) == [parses |-> parses, doc |-> doc]
Unparseable == SourceText(FALSE, Document(EmptyMap, EmptyMap))
Texts == {Unparseable} \cup {SourceText(TRUE, Document(ImportsOf(files), EmptyMap)) :
                                  files \in ImportSets}
FileSets == UNION {[present -> Texts] : present \in SUBSET FilePaths}

LoadInit ==
    /\ sources \in FileSets
    /\ to_parse = {}
    /\ parsed = EmptyMap
    /\ reads = <<>>
    /\ loaded = NotCalled
    /\ applied = NoOp
    /\ docs = EmptyMap
    /\ entry = [doc_path |-> <<"main">>, func_name |-> ""]
    /\ evaluating = {}
    /\ cache = EmptyMap
    /\ solids = <<>>
    /\ ctl = Idle
    /\ stack = <<>>
    /\ runs = <<>>
    /\ hist = EmptyHist

LoadNext ==
    \/ parse_all_begin
    \/ parse_all_skip
    \/ parse_all_io_error
    \/ parse_all_parse_error
    \/ parse_all_import_error
    \/ parse_all_parsed
    \/ parse_all_return

LoadSpec == LoadInit /\ [][LoadNext]_vars

\* parse_all is sequential code that calls no other thread: once called it
\* takes its next step, so a step that is possible is not put off forever.
LoadFairSpec == LoadInit /\ [][LoadNext]_vars /\ WF_vars(LoadNext)

(***************************************************************************)
(* FQPath::import_path (src/src/lib.rs:129-149) applied to any FQPath of   *)
(* up to MaxBase segments and any import string of up to MaxParts          *)
(* segments.                                                               *)
(***************************************************************************)
SeqsUpTo(set, n) == UNION {[1..k -> set] : k \in 0..n}
BasePaths == SeqsUpTo({"d", "main"}, MaxBase)
ImportFiles == SeqsUpTo({"..", "a", "d"}, MaxParts) \ {<<>>}

PathCall(self, import) ==
    [fn |-> "import_path", self |-> self, import |-> import, returned |-> FALSE,
     res |-> import_path(<<>>, Import("", <<>>))]

PathInit ==
    /\ NotEvaluating
    /\ NotLoading
    /\ solids = <<>>
    /\ \E self \in BasePaths, file \in ImportFiles :
          applied = PathCall(self, Import(Last(file), file))

FQPath_import_path ==
    /\ applied.fn = "import_path"
    /\ ~applied.returned
    /\ applied' = [applied EXCEPT !.returned = TRUE,
                                  !.res = import_path(applied.self, applied.import)]
    /\ UNCHANGED <<load_vars, eval_vars>>

PathNext == FQPath_import_path

PathSpec == PathInit /\ [][PathNext]_vars

(***************************************************************************)
(* The construction of the AST from the parse tree: Document::try_from     *)
(* (src/src/ast/document.rs), FuncDef::try_from, ArgDefs::try_from and     *)
(* CallArgs::try_from (src/src/ast/function.rs), Import::try_from          *)
(* (src/src/ast/import.rs).  A Pair of the parse tree is a record of its   *)
(* rule and its inner Pairs; the span of a statement is its place in the   *)
(* document and the span of a named argument its place in the call.        *)
(***************************************************************************)
PairNumber(n) == [rule |-> "number", n |-> n]
PairEmptyCallArgs == [rule |-> "empty_call_args"]
PairNamedCallArg(name, expr, span) == [name |-> name, expr |-> expr, span |-> span]
PairNamedCallArgs(named) == [rule |-> "named_call_args", args |-> named]
PairFuncCall(name, call_args) == [rule |-> "func_call", name |-> name, call_args |-> call_args]
PairArgDef(name, default) == [name |-> name, default |-> default]
PairFuncDef(name, defs, body) ==
    [rule |-> "func_def", name |-> name, defs |-> defs, body |-> body]
PairImport(file) == [rule |-> "import", file |-> file]

\* An item with its span, as the errors carry it.
Spanned(inner, span) == [inner |-> inner, span |-> span]
\* ParseError::DuplicateFuncDef(old, new) and its like.
Duplicate(type, old, new) == [type |-> type, old |-> old, new |-> new]

\* collect::<Result<Vec<_>, _>>(): the first Err of the results, if any.
first_err(results) ==
    LET errs == {i \in DOMAIN results : ~results[i].ok} IN
    IF errs = {} THEN None ELSE Some(results[CHOOSE i \in errs : \A j \in errs : i <= j])

\* HashMap::insert over the named arguments in their order: the first key
\* that is in the map already ends the loop.
RECURSIVE insert_named(_, _, _)
insert_named(named, i, arg_map) ==
    IF i > Len(named) THEN ParseOk(Named([name \in DOMAIN arg_map |-> arg_map[name].inner.expr]))
    ELSE LET new == named[i] IN
         IF contains_key(arg_map, new.inner.name)
         THEN ParseErr(Duplicate("DuplicateNamedArgument", arg_map[new.inner.name], new))
         ELSE insert_named(named, i + 1, map_insert(arg_map, new.inner.name, new))

\* Expr::try_from on a number or a call, and CallArgs::try_from
\* (function.rs:69-92).
RECURSIVE Expr_try_from(_)
RECURSIVE CallArgs_try_from(_)
NamedCallArg_try_from(pair) ==
    LET expr == Expr_try_from(pair.expr) IN
    IF ~expr.ok THEN expr
    ELSE ParseOk(Spanned([name |-> pair.name, expr |-> expr.val], pair.span))
CallArgs_try_from(value) ==
    IF value.rule = "empty_call_args" THEN ParseOk(CallArgsNone)
    ELSE LET named_args == [i \in DOMAIN value.args |-> NamedCallArg_try_from(value.args[i])] IN
         IF IsSome(first_err(named_args)) THEN Unwrap(first_err(named_args))
         ELSE insert_named([i \in DOMAIN named_args |-> named_args[i].val], 1, EmptyMap)
Expr_try_from(value) ==
    IF value.rule = "number" THEN ParseOk(Num(value.n))
    ELSE LET args == CallArgs_try_from(value.call_args) IN
         IF ~args.ok THEN args ELSE ParseOk(FuncCall(None, value.name, args.val))

\* ArgDef::try_from (function.rs:16-37)
ArgDef_try_from(value) ==
    IF ~IsSome(value.default) THEN ParseOk(ArgDef(value.name, None))
    ELSE LET default == Expr_try_from(Unwrap(value.default)) IN
         IF ~default.ok THEN default ELSE ParseOk(ArgDef(value.name, Some(default.val)))

\* ArgDefs::try_from (function.rs:46-54): the ArgDefs in their order.
ArgDefs_try_from(value) ==
    LET args == [i \in DOMAIN value |-> ArgDef_try_from(value[i])] IN
    IF IsSome(first_err(args)) THEN Unwrap(first_err(args))
    ELSE ParseOk([i \in DOMAIN args |-> args[i].val])

\* FuncDef::try_from (function.rs:142-169)
FuncDef_try_from(value) ==
    LET args == IF IsSome(value.defs) THEN ArgDefs_try_from(Unwrap(value.defs))
                ELSE ParseOk(<<>>)
        body == Expr_try_from(value.body) IN
    IF ~args.ok THEN args
    ELSE IF ~body.ok THEN body
    ELSE ParseOk(FuncDef(value.name,
                         IF IsSome(value.defs) THEN Some(args.val) ELSE None,
                         body.val))

Import_try_from_head(value) == ParseOk(Import(Head(value.file), value.file))
\* Import::try_from (import.rs:27-42): the alias is the last segment.
Import_try_from(value) == ParseOk(Import(Last(value.file), value.file))

\* Document::try_from (document.rs:19-45): the loop over the statements from
\* the i-th on; imports and funcs are the maps so far, of Spanned items.
RECURSIVE Document_statements(_, _, _, _)
Document_statements(statements, i, imports, funcs) ==
    IF i > Len(statements)
    THEN ParseOk(Document([alias \in DOMAIN imports |-> imports[alias].inner],
                          [name \in DOMAIN funcs |-> funcs[name].inner]))
    ELSE IF statements[i].rule = "func_def"
    THEN LET new == FuncDef_try_from(statements[i]) IN
         IF ~new.ok THEN new
         ELSE IF contains_key(funcs, new.val.name)
         THEN ParseErr(Duplicate("DuplicateFuncDef", funcs[new.val.name],
                                 Spanned(new.val, i)))
         ELSE Document_statements(statements, i + 1, imports,
                                  map_insert(funcs, new.val.name, Spanned(new.val, i)))
    ELSE LET new == Import_try_from(statements[i]) IN
         IF contains_key(imports, new.val.alias)
         THEN ParseErr(Duplicate("DumplicateImport", imports[new.val.alias],
                                 Spanned(new.val, i)))
         ELSE Document_statements(statements, i + 1,
                                  map_insert(imports, new.val.alias, Spanned(new.val, i)),
                                  funcs)

Document_try_from(statements) == Document_statements(statements, 1, EmptyMap, EmptyMap)

\* The statements of the documents: imports of one alias and of another,
\* definitions of f, g and h, parameter lists and named calls with and
\* without a repeated name.
NamedCall(names) ==
    PairFuncCall("g", PairNamedCallArgs([i \in DOMAIN names |->
                                            PairNamedCallArg(names[i], PairNumber(i), i)]))
StatementPool ==
    {PairImport(<<"a">>), PairImport(<<"d", "a">>), PairImport(<<"b">>),
     PairFuncDef("f", None, PairNumber(1)),
     PairFuncDef("f", None, PairNumber(2)),
     PairFuncDef("g", Some(<<PairArgDef("x", None), PairArgDef("y", Some(PairNumber(1)))>>),
                 PairFuncCall("x", PairEmptyCallArgs)),
     PairFuncDef("g", Some(<<PairArgDef("x", None), PairArgDef("x", Some(PairNumber(1)))>>),
                 PairFuncCall("x", PairEmptyCallArgs)),
     PairFuncDef("h", None, NamedCall(<<"x", "y">>)),
     PairFuncDef("h", None, NamedCall(<<"x", "y", "x">>)),
     PairFuncDef("f", Some(<<PairArgDef("x", Some(NamedCall(<<"y", "y">>)))>>),
                 PairNumber(3))}
ParseTrees == SeqsUpTo(StatementPool, MaxStatements)

DocumentCall(statements) ==
    [fn |-> "Document::try_from", statements |-> statements, returned |-> FALSE,
     res |-> ParseOk(Document(EmptyMap, EmptyMap))]

ParseInit ==
    /\ NotEvaluating
    /\ NotLoading
    /\ solids = <<>>
    /\ \E statements \in ParseTrees : applied = DocumentCall(statements)

Document_try_from_apply ==
    /\ applied.fn = "Document::try_from"
    /\ ~applied.returned
    /\ applied' = [applied EXCEPT !.returned = TRUE,
                                  !.res = Document_try_from(applied.statements)]
    /\ UNCHANGED <<load_vars, eval_vars>>

ParseNext == Document_try_from_apply

ParseSpec == ParseInit /\ [][ParseNext]_vars

(***************************************************************************)
(* The trigonometric built-ins applied to an angle (BuiltIn::eval of       *)
(* src/src/eval/builtins/mod.rs on Sin, Cos and Tan of math.rs), under the *)
(* context of a call of the built-in.                                      *)
(***************************************************************************)
Angles == {Number(n) : n \in (0 - MaxAngle)..MaxAngle} \cup {Infinite, NotANumber}
MathBuiltIns == {"Sin", "Cos", "Tan"}

MathCall(built_in, angle) ==
    [fn |-> built_in, angle |-> angle, returned |-> FALSE, res |-> Ok(NoValue)]

MathInit ==
    /\ NotEvaluating
    /\ NotLoading
    /\ solids = <<>>
    /\ \E built_in \in MathBuiltIns, angle \in Angles : applied = MathCall(built_in, angle)

BuiltIn_eval ==
    /\ applied.fn \in MathBuiltIns
    /\ ~applied.returned
    /\ LET out == built_in_eval(applied.fn, solids,
                                ScopeBuiltIn(applied.fn, map_insert(EmptyMap, "angle", applied.angle)),
                                push_built_in(ContextNone, applied.fn)) IN
       /\ applied' = [applied EXCEPT !.returned = TRUE, !.res = out.res]
       /\ solids' = out.solids
    /\ UNCHANGED <<load_vars, docs, entry, evaluating, cache, ctl, stack, runs, hist>>

MathNext == BuiltIn_eval

MathSpec == MathInit /\ [][MathNext]_vars

(***************************************************************************)
(* EvalContext (src/src/eval/context.rs): frames are pushed on             *)
(* EvalContext::None one after the other and eval_err is called on the     *)
(* result.                                                                 *)
(***************************************************************************)
PushFuncCall(expr, doc) == [push |-> "push_func_call", expr |-> expr, doc |-> doc]
PushFuncDef(func, doc) == [push |-> "push_func_def", func |-> func, doc |-> doc]
PushArgDefault(arg, func, doc) ==
    [push |-> "push_arg_default", arg |-> arg, func |-> func, doc |-> doc]
PushBuiltIn(name) == [push |-> "push_built_in", name |-> name]

\* One push_* call on a context.
push(context, p) ==
    CASE p.push = "push_func_call" -> push_func_call(context, p.expr, p.doc)
      [] p.push = "push_func_def" -> push_func_def(context, p.func, p.doc)
      [] p.push = "push_arg_default" -> push_arg_default(context, p.arg, p.func, p.doc)
      [] OTHER -> push_built_in(context, p.name)

\* The context after the pushes, the first push the outermost Node.
RECURSIVE push_all(_, _)
push_all(context, pushes) ==
    IF pushes = <<>> THEN context
    ELSE push_all(push(context, Head(pushes)), Tail(pushes))

Pushes ==
    LET f == FuncDef("f", Some(<<ArgDef("x", Some(Num(1)))>>), Ref("x")) IN
    {PushFuncCall(Ref("f"), <<"main">>),
     PushFuncCall(Ref("a"), <<"lib">>),
     PushFuncDef(f, <<"main">>),
     PushArgDefault(ArgDef("x", Some(Num(1))), f, <<"main">>),
     PushBuiltIn("Tan")}

ContextCall(pushes) ==
    [fn |-> "eval_err", pushes |-> pushes, returned |-> FALSE, res |-> Ok(NoValue)]

ContextInit ==
    /\ NotEvaluating
    /\ NotLoading
    /\ solids = <<>>
    /\ \E pushes \in SeqsUpTo(Pushes, MaxFrames) : applied = ContextCall(pushes)

EvalContext_eval_err ==
    /\ applied.fn = "eval_err"
    /\ ~applied.returned
    /\ applied' = [applied EXCEPT
                       !.returned = TRUE,
                       !.res = eval_err(push_all(ContextNone, applied.pushes),
                                        ErrorType("NumExprNotFinite", ""))]
    /\ UNCHANGED <<load_vars, eval_vars>>

ContextNext == EvalContext_eval_err

ContextSpec == ContextInit /\ [][ContextNext]_vars

(***************************************************************************)
(* The match of eval_binary_expr (eval/mod.rs:79-105) applied to the       *)
(* values of two operands, on a SolidSet of two cubes.                     *)
(***************************************************************************)
BinaryOps == {"Add", "Sub", "Mul", "Div"}
TwoCubes == <<Solid("cube", Number(1), NoValue), Solid("cube", Number(2), NoValue)>>
Operands ==
    {Number(0 - 3), Number(0), Number(2), Number(6),
     Regular(0), Regular(1), Empty, Universal}

BinaryCall(lhsv, op, rhsv) ==
    [fn |-> "eval_binary_expr", lhsv |-> lhsv, op |-> op, rhsv |-> rhsv,
     returned |-> FALSE, res |-> Ok(NoValue)]

BinaryInit ==
    /\ NotEvaluating
    /\ NotLoading
    /\ solids = TwoCubes
    /\ \E lhsv, rhsv \in Operands, op \in BinaryOps : applied = BinaryCall(lhsv, op, rhsv)

eval_binary_expr_match ==
    /\ applied.fn = "eval_binary_expr"
    /\ ~applied.returned
    /\ LET out == binary_op(solids, applied.lhsv, applied.op, applied.rhsv, ContextNone) IN
       /\ applied' = [applied EXCEPT !.returned = TRUE, !.res = out.res]
       /\ solids' = out.solids
    /\ UNCHANGED <<load_vars, docs, entry, evaluating, cache, ctl, stack, runs, hist>>

BinaryNext == eval_binary_expr_match

BinarySpec == BinaryInit /\ [][BinaryNext]_vars

(***************************************************************************)
(* What the properties speak of.                                           *)
(***************************************************************************)
\* A result is being returned, or the run returned one.
HasResult ==
    \/ ctl.mode = "return"
    \/ ctl.mode = "idle" /\ runs # <<>> /\ Last(runs).outcome = "returned"
Result == IF ctl.mode = "idle" THEN Last(runs).res ELSE ctl.res
\* eval_function returned.
Finished == ctl.mode = "idle" /\ runs # <<>> /\ Last(runs).outcome = "returned"
FailedWith(res, type) == ~res.ok /\ res.err.error_type.type = type

\* The classes of Number are exact on every run: no value of the model is
\* an f64 the model has no class for.
ArithmeticExact ==
    /\ \A sc \in DOMAIN cache : cache[sc].s # "inexact"
    /\ ctl.mode = "return" => ctl.res.val.s # "inexact"

\* The tests of the repository pass on the model.
TestsPass ==
    \A t \in Tests :
        (docs = t.docs /\ ctl.mode = "idle") =>
            \A i \in 1..Len(runs) : runs[i] = Outcome("returned", t.expect)

\* Only the unbounded recursion f(x) = f(x + 1) fills the stack.
OverflowOnlyUnbounded ==
    (runs # <<>> /\ Last(runs).outcome = "aborted") =>
        docs[Main].funcs["f"].body =
            FuncCall(None, "f", Positional(<<Bin(Ref("x"), "Add", Num(1))>>))

(***************************************************************************)
(* Recursion detection and the cache (eval/scope.rs).                      *)
(***************************************************************************)
\* The frame eval_scope_unchecked pushes for a scope.
FrameOf(scope) ==
    IF scope.kind = "FuncCall"
    THEN [entry_type |-> "FuncDef", name |-> scope.name, doc |-> scope.doc_path]
    ELSE [entry_type |-> "ArgDefault", func |-> scope.name, arg |-> scope.arg,
          doc |-> scope.doc_path]
Count(seq, x) == Cardinality({i \in 1..Len(seq) : seq[i] = x})
OfType(entries, types) == {i \in 1..Len(entries) : entries[i].entry_type \in types}

\* The entries carry one FuncDef or ArgDefault frame for every scope of the
\* chain and no other, and a FuncCall frame for every call of the chain.
CarriesChain(entries, chain) ==
    /\ Cardinality(OfType(entries, {"FuncDef", "ArgDefault"})) = Len(chain)
    /\ \A i \in 1..Len(chain) :
           Count(entries, FrameOf(chain[i])) =
               Cardinality({j \in 1..Len(chain) : FrameOf(chain[j]) = FrameOf(chain[i])})
    /\ Cardinality(OfType(entries, {"FuncCall"})) >= Len(chain)

\* C1: once eval_scope is entered with a scope that is in the evaluating set,
\* the evaluation fails: the result that is returned, up to eval_function, is
\* the error InfiniteRecursion, and its context carries the frames of every
\* scope that was being evaluated when the scope was entered again.
C1_InfiniteRecursion ==
    \A i \in 1..Len(hist.reentered) :
        /\ HasResult
        /\ Result.err.error_type = ErrorType("InfiniteRecursion", "")
        /\ ~Result.ok
        /\ CarriesChain(Result.err.context_entries, hist.reentered[i].chain)

\* A run returned InfiniteRecursion from a mutual recursion: the scope that
\* was entered again is the entry, and another scope was evaluated in between.
C1_Witness ==
    /\ Finished
    /\ hist.reentered # <<>>
    /\ Len(hist.reentered[1].chain) >= 2
    /\ hist.reentered[1].scope = hist.reentered[1].chain[1]
    /\ FailedWith(Last(runs).res, "InfiniteRecursion")

\* C2: in one run, two eval_scope calls with equal scopes return equal
\* results, and the unit of work of a scope (the body, the default
\* expression, the built-in) is started at most once.
C2_EvaluatedOnce ==
    /\ \A i, j \in 1..Len(hist.returned) :
           hist.returned[i].scope = hist.returned[j].scope =>
               hist.returned[i].res = hist.returned[j].res
    /\ \A i, j \in 1..Len(hist.executed) :
           hist.executed[i] = hist.executed[j] => i = j

\* A run in which eval_scope returned twice for one FuncCall scope with
\* arguments, a value each time.
C2_Witness ==
    /\ Finished
    /\ \E i, j \in 1..Len(hist.returned) :
           /\ i < j
           /\ hist.returned[i].scope = hist.returned[j].scope
           /\ hist.returned[i].scope.kind = "FuncCall"
           /\ hist.returned[i].scope.args # EmptyMap
           /\ hist.returned[i].res.ok

\* C3: every entry (s, v) of the cache was put there by an eval_scope(s) that
\* returned Ok(v), and the scope of an eval_scope that returned an error is
\* not in the cache.
C3_CacheOnlyOk ==
    /\ \A sc \in DOMAIN cache :
           \E i \in 1..Len(hist.returned) :
               hist.returned[i] = Returned(sc, Ok(cache[sc]))
    /\ \A i \in 1..Len(hist.returned) :
           ~hist.returned[i].res.ok => hist.returned[i].scope \notin DOMAIN cache

\* A run that failed after it cached a value: an eval_scope returned an
\* error, and the cache is not empty.
C3_Witness ==
    /\ Finished
    /\ DOMAIN cache # {}
    /\ \E i \in 1..Len(hist.returned) : ~hist.returned[i].res.ok

\* C4: every run of eval_function ends, and ends with a Value or an
\* EvalError.
C4_Terminates ==
    \A i \in 1..Len(runs) : runs[i].outcome = "returned"

\* Two results are equal: the same Value, or an error of the same kind.
SameResult(r1, r2) ==
    /\ r1.ok = r2.ok
    /\ r1.val = r2.val
    /\ r1.err.error_type.type = r2.err.error_type.type

\* C5: two runs of eval_function on the same DocSet and entry return equal
\* results, whatever the order in which the named arguments of a call are
\* evaluated.
C5_OrderIndependent ==
    \A i, j \in 1..Len(runs) :
        (runs[i].outcome = "returned" /\ runs[j].outcome = "returned") =>
            SameResult(runs[i].res, runs[j].res)

(***************************************************************************)
(* Name resolution and argument binding (eval/mod.rs, eval/builtins).      *)
(***************************************************************************)
\* The order of resolution of an unqualified name.
ResolutionOrder(name, scope) ==
    IF name \in DOMAIN scope_args(scope) THEN "Argument"
    ELSE IF name \in {"Cube", "Sin", "Cos", "Tan"} THEN "BuiltIn"
    ELSE IF name \in DOMAIN docs[scope.doc_path].funcs THEN "Func"
    ELSE "NoMatch"

\* C6: an unqualified call name is resolved as a parameter bound in the
\* current scope, else as a built-in, else as a function of the current
\* document, and else the evaluation fails with FuncNotFound naming it.
C6_ResolutionOrder ==
    \A i \in 1..Len(hist.resolved) :
        LET r == hist.resolved[i] IN
        ~IsSome(r.expr.import_part) =>
            /\ r.branch = ResolutionOrder(r.expr.name_part, r.scope)
            /\ r.branch = "NoMatch" =>
                   /\ HasResult
                   /\ FailedWith(Result, "FuncNotFound")
                   /\ Result.err.error_type.name = r.expr.name_part

\* f(Sin = 6, x = 1) = Sin + Cos(0) returned 7 in a document that defines
\* functions Sin and Cos: Sin was resolved as the parameter although it is a
\* built-in and a function of the document, and Cos as the built-in although
\* it is a function of the document.
C6_Witness ==
    /\ Finished
    /\ Last(runs).res = Ok(Number(7))
    /\ \E i, j \in 1..Len(hist.resolved) :
           LET r == hist.resolved[i]
               q == hist.resolved[j] IN
           /\ r.expr.name_part = "Sin" /\ r.branch = "Argument"
           /\ "Sin" \in DOMAIN docs[r.scope.doc_path].funcs
           /\ q.expr.name_part = "Cos" /\ q.branch = "BuiltIn"
           /\ "Cos" \in DOMAIN docs[q.scope.doc_path].funcs

\* The parameters of the callee of a binding, and the calls of interest.
ParamsOf(b) ==
    IF b.callee = "built_in" THEN arg_defs(b.built_in)
    ELSE IF IsSome(b.func_def.args) THEN Unwrap(b.func_def.args) ELSE <<>>
ParamNames(b) == {ParamsOf(b)[k].name : k \in 1..Len(ParamsOf(b))}
IsPositional(b) == b.call.args.k = "Positional"
IsNamed(b) == b.call.args.k = "Named"
\* The parameters a call supplies, by position or by name.
SuppliedNames(b) ==
    IF IsPositional(b)
    THEN {ParamsOf(b)[k].name : k \in DOMAIN b.call.args.args \cap DOMAIN ParamsOf(b)}
    ELSE IF IsNamed(b) THEN DOMAIN b.call.args.args \cap ParamNames(b)
    ELSE {}
\* The parameters a call leaves without a value: not supplied, no default.
Missing(b) ==
    {k \in 1..Len(ParamsOf(b)) : /\ ParamsOf(b)[k].name \notin SuppliedNames(b)
                                 /\ ~IsSome(ParamsOf(b)[k].default)}
FirstMissing(b) == CHOOSE k \in Missing(b) : \A j \in Missing(b) : k <= j
DefaultScope(b, k) == ScopeArgDefault(b.def_doc_path, b.func_def.name, ParamsOf(b)[k].name)
\* The run returned its result to the caller of eval_function, or is about to.
FinalResult == HasResult /\ (ctl.mode = "return" => stack = <<>>)

\* The first two parts of C7: the callee's scope binds every supplied
\* parameter to the supplied value and every other parameter to the value of
\* its default expression.
C7_Bound ==
    \A i \in 1..Len(hist.calls) :
        LET c == hist.calls[i]
            b == c.b IN
        b.callee = "func" =>
            /\ DOMAIN b.supplied = SuppliedNames(b)
            /\ DOMAIN c.scope.args = ParamNames(b)
            /\ \A k \in 1..Len(ParamsOf(b)) :
                   LET def == ParamsOf(b)[k] IN
                   IF def.name \in SuppliedNames(b)
                   THEN c.scope.args[def.name] = b.supplied[def.name]
                   ELSE /\ IsSome(def.default)
                        /\ DefaultScope(b, k) \in DOMAIN cache
                        /\ c.scope.args[def.name] = cache[DefaultScope(b, k)]
                        /\ Unwrap(def.default).k = "Number" =>
                               c.scope.args[def.name] = Unwrap(def.default).val

\* C7 as stated: parameters are bound to the supplied values or else to the
\* values of their defaults, and a call that leaves a parameter without a
\* value fails with NoSuppliedOrDefaultArg naming such a parameter.
C7_MissingAlwaysReported ==
    /\ C7_Bound
    /\ \A i \in 1..Len(hist.turns) :
           LET b == hist.turns[i].b IN
           (b.callee = "func" /\ Missing(b) # {} /\ FinalResult) =>
               /\ FailedWith(Result, "NoSuppliedOrDefaultArg")
               /\ \E k \in Missing(b) : ParamsOf(b)[k].name = Result.err.error_type.name

\* C7: parameters are bound to the supplied values or else to the values of
\* their defaults.  A call that leaves a parameter without a value fails; a
\* default scope of a parameter without a default returns
\* NoSuppliedOrDefaultArg naming it; and the call fails with that error, for
\* the first such parameter, when its supplied arguments and the defaults
\* before that parameter were evaluated.
C7_ArgumentsBound ==
    /\ C7_Bound
    /\ \A i \in 1..Len(hist.turns) :
           LET t == hist.turns[i]
               b == t.b IN
           (b.callee = "func" /\ Missing(b) # {} /\ FinalResult) =>
               /\ ~Result.ok
               /\ ( /\ t.act = "done"
                    /\ \A k \in 1..(FirstMissing(b) - 1) :
                           \/ ParamsOf(b)[k].name \in SuppliedNames(b)
                           \/ DefaultScope(b, k) \in DOMAIN cache )
                  => /\ FailedWith(Result, "NoSuppliedOrDefaultArg")
                     /\ Result.err.error_type.name = ParamsOf(b)[FirstMissing(b)].name
    /\ \A i \in 1..Len(hist.returned) :
           LET r == hist.returned[i]
               def == args_with_name(Unwrap(docs[r.scope.doc_path].funcs[r.scope.name].args),
                                     r.scope.arg) IN
           (r.scope.kind = "ArgDefault" /\ ~IsSome(Unwrap(def).default)) =>
               /\ FailedWith(r.res, "NoSuppliedOrDefaultArg")
               /\ r.res.err.error_type.name = r.scope.arg

\* f(x, y = 4) was called with x = 2 by name and the run returned a value:
\* the scope of f binds x to the supplied 2 and y to its default 4.
C7_WitnessBound ==
    /\ Finished
    /\ Last(runs).res.ok
    /\ \E i \in 1..Len(hist.calls) :
           LET c == hist.calls[i] IN
           /\ c.b.callee = "func"
           /\ IsNamed(c.b)
           /\ DOMAIN c.b.supplied = {"x"}
           /\ c.scope.args = ("x" :> Number(2) @@ "y" :> Number(4))

\* f(x = x, y) was called without arguments and the run returned
\* NoSuppliedOrDefaultArg naming y, after the default of x was evaluated
\* (it is in the cache).
C7_Witness ==
    /\ Finished
    /\ FailedWith(Last(runs).res, "NoSuppliedOrDefaultArg")
    /\ Last(runs).res.err.error_type.name = "y"
    /\ \E i \in 1..Len(hist.turns) :
           LET b == hist.turns[i].b IN
           /\ b.callee = "func"
           /\ b.call.args = CallArgsNone
           /\ Missing(b) = {2}
           /\ DefaultScope(b, 1) \in DOMAIN cache

\* A positional call with more arguments than the callee has parameters; a
\* callee without a parameter list has none.
TooMany(b) == IsPositional(b) /\ Len(b.call.args.args) > Len(ParamsOf(b))

\* The first part of C8: the scope of the callee, a user function or a
\* built-in, binds parameter k to the value of argument k.
C8_Paired ==
    \A i \in 1..Len(hist.calls) :
        LET c == hist.calls[i]
            b == c.b IN
        IsPositional(b) =>
            /\ Len(b.call.args.args) <= Len(ParamsOf(b))
            /\ Len(b.values) = Len(b.call.args.args)
            /\ \A k \in 1..Len(b.call.args.args) :
                   /\ c.scope.args[ParamsOf(b)[k].name] = b.values[k]
                   /\ b.call.args.args[k].k = "Number" =>
                          b.values[k] = b.call.args.args[k].val

\* C8 as stated: argument k is bound to parameter k, and a positional call
\* with more arguments than the callee has parameters fails with TooManyArgs.
C8_TooManyAlwaysReported ==
    /\ C8_Paired
    /\ \A i \in 1..Len(hist.turns) :
           (TooMany(hist.turns[i].b) /\ FinalResult) => FailedWith(Result, "TooManyArgs")

\* C8: argument k is bound to parameter k.  A positional call with more
\* arguments than the callee has parameters fails: with TooManyArgs at the
\* first argument without a parameter, which is reached when the arguments
\* before it were evaluated, and is the first argument when the callee has no
\* parameter list.
C8_PositionalArgs ==
    /\ C8_Paired
    /\ \A i \in 1..Len(hist.turns) :
           LET t == hist.turns[i]
               b == t.b IN
           /\ (TooMany(b) /\ FinalResult) => ~Result.ok
           /\ (TooMany(b) /\ b.index = Len(ParamsOf(b)) + 1) =>
                  /\ Len(b.values) = Len(ParamsOf(b))
                  /\ t.act = "fail"
                  /\ FailedWith(t.res, "TooManyArgs")
                  /\ HasResult
                  /\ Result = t.res

\* f(x, y = 4) = x + y was called as f(2, 3) and returned 5.
C8_WitnessPaired ==
    /\ Finished
    /\ Last(runs).res = Ok(Number(5))
    /\ \E i \in 1..Len(hist.calls) :
           /\ IsPositional(hist.calls[i].b)
           /\ hist.calls[i].scope.args = ("x" :> Number(2) @@ "y" :> Number(3))

\* A run returned TooManyArgs from a call with two arguments of a function
\* with one parameter, after the first argument was evaluated to 2.
C8_Witness ==
    /\ Finished
    /\ FailedWith(Last(runs).res, "TooManyArgs")
    /\ \E i \in 1..Len(hist.turns) :
           LET t == hist.turns[i] IN
           /\ TooMany(t.b)
           /\ t.b.callee = "func"
           /\ t.b.index = 2
           /\ t.b.values = <<Number(2)>>
           /\ t.act = "fail"

\* C9: a call with named arguments, one of which is not the name of a
\* parameter of the callee, fails with InvalidNamedArg naming such a key,
\* whatever the callee: a user function with or without a parameter list, or
\* a built-in.
C9_InvalidNamedArg ==
    \A i \in 1..Len(hist.turns) :
        LET b == hist.turns[i].b IN
        (IsNamed(b) /\ ~(DOMAIN b.call.args.args \subseteq ParamNames(b)) /\ FinalResult) =>
            /\ FailedWith(Result, "InvalidNamedArg")
            /\ Result.err.error_type.name \in DOMAIN b.call.args.args \ ParamNames(b)

\* The value of an argument expression that is a name, in the scope of the
\* caller: the parameter of the caller, or else the function of the caller's
\* document.
ValueInCaller(name, scope) ==
    IF name \in DOMAIN scope_args(scope) THEN scope_args(scope)[name]
    ELSE cache[ScopeFuncCall(name, EmptyMap, scope.doc_path)]
IsName(expr) ==
    /\ expr.k = "FuncCall"
    /\ expr.args = CallArgsNone
    /\ ~IsSome(expr.import_part)
    /\ expr.name_part \notin BuiltInNames

\* C10: at a qualified call I.f the arguments are evaluated in the scope of
\* the caller, and the scope of the callee has the imported document and
\* binds the parameters of f and nothing else, so that a name in the body or
\* in a default of f is resolved as a parameter of f or as a function of the
\* imported document.
C10_QualifiedCall ==
    \A i \in 1..Len(hist.calls) :
        LET c == hist.calls[i]
            b == c.b IN
        IsSome(b.call.import_part) =>
            LET imported == import_path(b.scope.doc_path,
                                docs[b.scope.doc_path].imports[Unwrap(b.call.import_part)]).path
                f == docs[imported].funcs[b.call.name_part]
                params == IF IsSome(f.args) THEN Unwrap(f.args) ELSE <<>> IN
            /\ c.scope.kind = "FuncCall"
            /\ c.scope.doc_path = imported
            /\ c.scope.name = b.call.name_part
            /\ DOMAIN c.scope.args = {params[k].name : k \in 1..Len(params)}
            /\ IsPositional(b) =>
                   \A k \in 1..Len(b.call.args.args) :
                       IsName(b.call.args.args[k]) =>
                           c.scope.args[params[k].name] =
                               ValueInCaller(b.call.args.args[k].name_part, b.scope)
            /\ \A j \in 1..Len(hist.resolved) :
                   LET r == hist.resolved[j] IN
                   (r.scope.doc_path = imported /\ r.scope.name = c.scope.name
                        /\ ~IsSome(r.expr.import_part)) =>
                       /\ r.branch = "Argument" =>
                              /\ r.expr.name_part \in {params[k].name : k \in 1..Len(params)}
                              /\ \E k \in 1..Len(hist.calls) :
                                     /\ hist.calls[k].scope = r.scope
                                     /\ hist.calls[k].b.call = b.call
                       /\ r.branch = "Func" =>
                              r.expr.name_part \in DOMAIN docs[imported].funcs

\* main's f(x) = lib.g(x) was called with 2 and returned 218: lib's
\* g(y, w = x) = y * 100 + (x + w) got the caller's parameter x = 2 as y, and
\* x in its default and in its body was lib's function x = 9, not the
\* caller's parameter x = 2 nor main's function x = 5.
C10_Witness ==
    /\ Finished
    /\ Last(runs).res = Ok(Number(218))
    /\ \E i \in 1..Len(hist.calls) :
           LET c == hist.calls[i] IN
           /\ c.b.call.import_part = Some("lib")
           /\ c.b.scope.doc_path = Main
           /\ c.b.scope.args = ("x" :> Number(2))
           /\ c.scope = ScopeFuncCall("g", "w" :> Number(9) @@ "y" :> Number(2), Lib)


(***************************************************************************)
(* C11: a qualified call I.f fails with ImportNotFound when I is not an    *)
(* import alias of the current document, with DocNotFound when the         *)
(* resolved import path is not in the DocSet, and with FuncNotFound when   *)
(* the imported document has no function f; when the imported document has *)
(* f, the callee is that function, and never a parameter or a built-in     *)
(* named f.                                                                *)
(***************************************************************************)
\* The step of eval_func_call_expr on a qualified call.
QualifiedCallStep ==
    /\ ctl.mode = "eval_expr"
    /\ ctl.expr.k = "FuncCall"
    /\ IsSome(ctl.expr.import_part)
    /\ hist'.resolved # hist.resolved

ImportAlias == Unwrap(ctl.expr.import_part)
ImportsOfCaller == docs[Unwrap(scope_doc(ctl.scope))].imports
ResolvedImportPath == import_path(Unwrap(scope_doc(ctl.scope)), ImportsOfCaller[ImportAlias])

FailsWith(type, name, path) ==
    /\ ctl'.mode = "return"
    /\ ~ctl'.res.ok
    /\ ctl'.res.err.error_type.type = type
    /\ ctl'.res.err.error_type.name = name
    /\ ctl'.res.err.error_type.path = path

C11_Step ==
    QualifiedCallStep =>
        IF ImportAlias \notin DOMAIN ImportsOfCaller
        THEN FailsWith("ImportNotFound", ImportAlias, <<>>)
        ELSE ResolvedImportPath.ok =>
             IF ResolvedImportPath.path \notin DOMAIN docs
             THEN FailsWith("DocNotFound", "", ResolvedImportPath.path)
             ELSE IF ctl.expr.name_part \notin DOMAIN docs[ResolvedImportPath.path].funcs
             THEN FailsWith("FuncNotFound", ctl.expr.name_part, <<>>)
             ELSE /\ ctl'.mode = "supplied"
                  /\ ctl'.b.callee = "func"
                  /\ ctl'.b.func_def = docs[ResolvedImportPath.path].funcs[ctl.expr.name_part]
                  /\ ctl'.b.def_doc_path = ResolvedImportPath.path

C11_QualifiedCallErrors == [][C11_Step]_vars

\* The last call that eval_func_call_expr resolved was qualified.
LastCallQualified ==
    /\ hist.resolved # <<>>
    /\ IsSome(Last(hist.resolved).expr.import_part)
LastCall == Last(hist.resolved)

\* lib.Sin, called where Sin is also a parameter and a built-in, failed with
\* FuncNotFound: lib has no function Sin.
C11_Witness ==
    /\ ctl.mode = "return"
    /\ LastCallQualified
    /\ LastCall.expr.name_part = "Sin"
    /\ "Sin" \in DOMAIN scope_args(LastCall.scope)
    /\ FailedWith(ctl.res, "FuncNotFound")
    /\ ctl.res.err.error_type.name = "Sin"

\* nolib.f failed with ImportNotFound.
C11_WitnessImportNotFound ==
    /\ ctl.mode = "return"
    /\ LastCallQualified
    /\ FailedWith(ctl.res, "ImportNotFound")
    /\ ctl.res.err.error_type.name = "nolib"

\* gone.f failed with DocNotFound.
C11_WitnessDocNotFound ==
    /\ ctl.mode = "return"
    /\ LastCallQualified
    /\ FailedWith(ctl.res, "DocNotFound")
    /\ ctl.res.err.error_type.path = <<"gone">>

\* lib.x, called where x is a parameter, is bound to the function x of lib.
C11_WitnessParameter ==
    /\ ctl.mode = "supplied"
    /\ ctl.b.call.import_part = Some("lib")
    /\ ctl.b.call.name_part \in DOMAIN scope_args(ctl.b.scope)
    /\ ctl.b.func_def = LibDoc.funcs["x"]


(***************************************************************************)
(* C12: eval_function called on a function that has at least one parameter *)
(* without a default returns an error and no value, for every such         *)
(* function.                                                               *)
(***************************************************************************)
\* The FuncDef of the entry.  For an entry the DocSet does not have, the
\* properties that speak of the entry's function read a FuncDef with no
\* parameters whose body is no expression of the language.
HasEntry ==
    /\ contains_key(docs, entry.doc_path)
    /\ contains_key(docs[entry.doc_path].funcs, entry.func_name)
EntryFunc ==
    IF HasEntry THEN docs[entry.doc_path].funcs[entry.func_name]
    ELSE FuncDef(entry.func_name, None, [k |-> "Missing"])
HasRequiredParameter(func) ==
    /\ IsSome(func.args)
    /\ \E i \in DOMAIN Unwrap(func.args) : ~IsSome(Unwrap(func.args)[i].default)

AppliedTo(fn, lhs, rhs) == applied.fn = fn /\ applied.lhs = lhs /\ applied.rhs = rhs
Gave(id) == applied.res = Ok(id) /\ solids = applied.before

C13_SentinelLaws ==
    \A x \in SolidIds :
        /\ AppliedTo("union", Empty, x) => Gave(x)
        /\ AppliedTo("union", x, Empty) => Gave(x)
        /\ AppliedTo("union", Universal, x) => Gave(Universal)
        /\ AppliedTo("union", x, Universal) => Gave(Universal)
        /\ AppliedTo("intersection", Empty, x) => Gave(Empty)
        /\ AppliedTo("intersection", x, Empty) => Gave(Empty)
        /\ AppliedTo("intersection", Universal, x) => Gave(x)
        /\ AppliedTo("intersection", x, Universal) => Gave(x)

\* The union of Empty and a Solid of the set was taken.
C13_Witness ==
    /\ applied.fn = "union"
    /\ applied.lhs = Empty
    /\ applied.rhs.s = "Regular"
    /\ applied.rhs.n < Len(applied.before)
    /\ Gave(applied.rhs)

\* The intersection of a Regular id of no Solid and Universal was taken.
C13_WitnessIntersection ==
    /\ applied.fn = "intersection"
    /\ applied.rhs = Universal
    /\ applied.lhs.s = "Regular"
    /\ applied.lhs.n >= Len(applied.before)
    /\ Gave(applied.lhs)


(***************************************************************************)
(* C14: for every SolidId A, difference(A, Empty) is A, difference(A,      *)
(* Universal) is Empty, difference(Empty, A) is Empty and                  *)
(* difference(Universal, A) is what negate(A) gives; negate(Empty) is      *)
(* Universal and negate(Universal) is Empty.  Where two of the laws apply  *)
(* (both operands are sentinels) they give the same id.                    *)
(***************************************************************************)
\* The operation gave what negate gives on the same SolidSet.
GaveNegateOf(id) ==
    /\ applied.res = solids_negate(applied.before, id).res
    /\ solids = solids_negate(applied.before, id).solids

C14_DifferenceLaws ==
    /\ \A A \in SolidIds :
        /\ AppliedTo("difference", A, Empty) => Gave(A)
        /\ AppliedTo("difference", A, Universal) => Gave(Empty)
        /\ AppliedTo("difference", Empty, A) => Gave(Empty)
        /\ AppliedTo("difference", Universal, A) => GaveNegateOf(A)
    /\ AppliedTo("negate", Empty, NoValue) => Gave(Universal)
    /\ AppliedTo("negate", Universal, NoValue) => Gave(Empty)

\* Universal less a Solid of the set was taken: the complement of the Solid
\* was added to the set.
C14_Witness ==
    /\ applied.fn = "difference"
    /\ applied.lhs = Universal
    /\ applied.rhs.s = "Regular"
    /\ applied.rhs.n < Len(applied.before)
    /\ applied.res = Ok(Regular(Len(applied.before)))
    /\ solids = Append(applied.before, solid_not(applied.before[applied.rhs.n + 1]))

\* A Solid of the set less Universal was taken.
C14_WitnessUniversal ==
    /\ applied.fn = "difference"
    /\ applied.rhs = Universal
    /\ applied.lhs.s = "Regular"
    /\ applied.lhs.n < Len(applied.before)
    /\ Gave(Empty)

\* Both operands were sentinels.
C14_WitnessOverlap ==
    /\ applied.fn = "difference"
    /\ applied.lhs = Universal
    /\ applied.rhs = Empty
    /\ Gave(Universal)


(***************************************************************************)
(* C15: every Number that eval_function returns or that is stored in the   *)
(* cache is finite; a Number-Number binary operation whose result is not   *)
(* finite fails with NumExprNotFinite instead of producing a value.        *)
(***************************************************************************)
FiniteIfNumber(v) == IsNumber(v) => is_finite(v)

\* The first half: the Numbers of the cache and of the returned results.
C15_NumbersFinite ==
    /\ \A sc \in DOMAIN cache : FiniteIfNumber(cache[sc])
    /\ \A i \in DOMAIN runs :
           (runs[i].outcome = "returned" /\ runs[i].res.ok) => FiniteIfNumber(runs[i].res.val)

\* The second half: the step of eval_binary_expr that applies the operator
\* to two Numbers gives a finite Number or NumExprNotFinite.
C15_BinaryStep ==
    (/\ Returning("binary_rhs")
     /\ ctl.res.ok
     /\ IsNumber(Top.lhsv)
     /\ IsNumber(ctl.res.val)
     /\ ctl'.mode = "return")
    => IF ctl'.res.ok
       THEN is_finite(ctl'.res.val)
       ELSE FailedWith(ctl'.res, "NumExprNotFinite")

C15_BinaryChecked == [][C15_BinaryStep]_vars

\* 1 / 0 failed with NumExprNotFinite.
C15_WitnessBinary ==
    /\ ctl.mode = "return"
    /\ FailedWith(ctl.res, "NumExprNotFinite")
    /\ ctl.res.err.context_entries # <<>>
    /\ ctl.res.err.context_entries[1].entry_type = "FuncCall"
    /\ ctl.res.err.context_entries[1].text.name_part = "f"


(***************************************************************************)
(* C16: when parse_all succeeds, the keys of the DocSet are exactly the    *)
(* paths reachable from the entry path by following imports (so every      *)
(* import of every loaded document resolves to a key), each key has the    *)
(* Document of its own file, and get_source was called exactly once for    *)
(* each of those paths and for no other, also when a document is imported  *)
(* by several documents.                                                   *)
(***************************************************************************)
Succeeded == loaded.state = "returned" /\ loaded.res.ok
DocSetOf == loaded.res.val

\* The paths that the imports of the file at path p name.
ImportedBy(p) ==
    IF contains_key(sources, p) /\ sources[p].parses
    THEN {ip.path : ip \in {i \in import_paths(p, sources[p].doc) : i.ok}}
    ELSE {}
RECURSIVE ReachableFrom(_)
ReachableFrom(paths) ==
    LET more == paths \cup UNION {ImportedBy(p) : p \in paths} IN
    IF more = paths THEN paths ELSE ReachableFrom(more)

TimesRead(p) == Cardinality({i \in DOMAIN reads : reads[i] = p})

C16_DocSetIsReachableSet ==
    Succeeded =>
        /\ DOMAIN DocSetOf = ReachableFrom({entry.doc_path})
        /\ \A p \in DOMAIN DocSetOf :
              /\ DocSetOf[p] = sources[p].doc
              /\ \A ip \in import_paths(p, DocSetOf[p]) : ip.ok /\ ip.path \in DOMAIN DocSetOf
              /\ TimesRead(p) = 1
        /\ \A i \in DOMAIN reads : reads[i] \in DOMAIN DocSetOf

\* parse_all succeeded on three documents, one of them imported by the two
\* others.
C16_Witness ==
    /\ Succeeded
    /\ Cardinality(DOMAIN DocSetOf) = 3
    /\ \E p \in DOMAIN DocSetOf :
          Cardinality({q \in DOMAIN DocSetOf : q # p /\ p \in ImportedBy(q)}) = 2
    /\ Len(reads) = 3


(***************************************************************************)
(* C17: import_path(base, import) drops the last segment of base and       *)
(* processes the segments of the import from left to right; it fails with  *)
(* ImportNotInDir exactly when a ".." is met while the segment stack is    *)
(* empty, and otherwise returns the stack after a push for every segment   *)
(* that is not ".." and a pop for every "..".                              *)
(***************************************************************************)
\* The directory of base: base without its last segment.
DirOf(base) == IF base = <<>> THEN <<>> ELSE SubSeq(base, 1, Len(base) - 1)

\* The height of the stack after the first k segments of the import, were
\* no pop refused: the pushes less the pops.
HeightAfter(base, file, k) ==
    Len(DirOf(base))
        + Cardinality({i \in 1..k : file[i] # ".."})
        - Cardinality({i \in 1..k : file[i] = ".."})
\* A ".." is met while the stack is empty.
PopsEmptyStack(base, file) == \E k \in 1..Len(file) : HeightAfter(base, file, k) < 0

\* The stack after the first k segments, by the segments that are still on
\* it: a segment of the directory or of the import stays when the pops that
\* follow it do not reach it.
StaysOfDir(base, file, i) ==
    \A k \in 1..Len(file) : HeightAfter(base, file, k) >= i
StaysOfFile(base, file, j) ==
    /\ file[j] # ".."
    /\ \A k \in j..Len(file) : HeightAfter(base, file, k) >= HeightAfter(base, file, j)
RECURSIVE Kept(_, _, _)
Kept(base, file, j) ==
    IF j > Len(file) THEN <<>>
    ELSE (IF StaysOfFile(base, file, j) THEN <<file[j]>> ELSE <<>>) \o Kept(base, file, j + 1)
StackAfter(base, file) ==
    SubSeq(DirOf(base), 1,
           Cardinality({i \in 1..Len(DirOf(base)) : StaysOfDir(base, file, i)}))
        \o Kept(base, file, 1)

C17_ImportPath ==
    (applied.fn = "import_path" /\ applied.returned) =>
        IF PopsEmptyStack(applied.self, applied.import.file)
        THEN ~applied.res.ok /\ applied.res.err = ErrorType("Parse", "ImportNotInDir")
        ELSE applied.res.ok
             /\ applied.res.path = StackAfter(applied.self, applied.import.file)

\* import_parent_dir_ok: `../d` in a document of a subdirectory is the
\* document d of the parent directory.
C17_Witness ==
    /\ applied.fn = "import_path"
    /\ applied.returned
    /\ applied.self = <<"d", "main">>
    /\ applied.import.file = <<"..", "d">>
    /\ applied.res.ok
    /\ applied.res.path = <<"d">>

\* import_past_entry_errors: `../a` in the entry document.
C17_WitnessPastEntry ==
    /\ applied.fn = "import_path"
    /\ applied.returned
    /\ applied.self = <<"main">>
    /\ applied.import.file = <<"..", "a">>
    /\ ~applied.res.ok


(***************************************************************************)
(* C18: if reading or parsing a document reachable from the entry fails,   *)
(* or one of its imports cannot be resolved, parse_all returns that error  *)
(* at once and returns no DocSet: no document is read after the failure,   *)
(* and a missing imported document yields ParseError::IO.                  *)
(***************************************************************************)
\* What is wrong with the file at a path, by the files alone.
FailureOf(p) ==
    IF ~contains_key(sources, p) THEN "IO"
    ELSE IF ~sources[p].parses THEN "Parse"
    ELSE IF \E alias \in DOMAIN sources[p].doc.imports :
               ~import_path(p, sources[p].doc.imports[alias]).ok
    THEN "ImportNotInDir"
    ELSE "none"

C18_ErrorsPropagate ==
    \* the read of a document that fails is the last read, and parse_all has
    \* returned its error and no DocSet
    /\ \A i \in DOMAIN reads :
          FailureOf(reads[i]) # "none" =>
              /\ i = Len(reads)
              /\ loaded = ParseAllReturned(ParseErr(FailureOf(reads[i])))
    \* parse_all does not succeed when a reachable document fails
    /\ Succeeded => \A p \in ReachableFrom({entry.doc_path}) : FailureOf(p) = "none"
    \* an error is the error of a document that was read
    /\ (loaded.state = "returned" /\ ~loaded.res.ok) =>
          reads # <<>> /\ FailureOf(Last(reads)) = loaded.res.err

\* import_missing_errors: the entry was parsed, a document it imports is
\* missing, and parse_all returned ParseError::IO.
C18_Witness ==
    /\ loaded.state = "returned"
    /\ ~loaded.res.ok
    /\ loaded.res.err = "IO"
    /\ Len(reads) >= 2
    /\ Last(reads) \in ImportedBy(entry.doc_path)
    /\ to_parse # {}

\* A text that does not parse.
C18_WitnessParse ==
    /\ loaded.state = "returned"
    /\ ~loaded.res.ok
    /\ loaded.res.err = "Parse"
    /\ Len(reads) >= 2

\* An import that leaves the root, in a document that is not the entry.
C18_WitnessImport ==
    /\ loaded.state = "returned"
    /\ ~loaded.res.ok
    /\ loaded.res.err = "ImportNotInDir"
    /\ Len(reads) >= 2


(***************************************************************************)
(* C19: duplicate definitions, imports and named arguments.                *)
(***************************************************************************)
DocumentBuilt == applied.fn = "Document::try_from" /\ applied.returned

\* The named calls of an expression of the parse tree, as the sequences of
\* their arguments.
RECURSIVE NamedCallsIn(_)
NamedCallsIn(expr) ==
    IF expr.rule = "number" \/ expr.call_args.rule = "empty_call_args" THEN {}
    ELSE {expr.call_args.args}
         \cup UNION {NamedCallsIn(expr.call_args.args[i].expr) :
                        i \in DOMAIN expr.call_args.args}

NamedCallsOf(statement) ==
    IF statement.rule = "import" THEN {}
    ELSE NamedCallsIn(statement.body)
         \cup (IF IsSome(statement.defs)
               THEN UNION {NamedCallsIn(Unwrap(Unwrap(statement.defs)[i].default)) :
                              i \in {k \in DOMAIN Unwrap(statement.defs) :
                                        IsSome(Unwrap(statement.defs)[k].default)}}
               ELSE {})

RepeatsKey(statement) ==
    \E named \in NamedCallsOf(statement) :
        \E i, j \in DOMAIN named : i < j /\ named[i].name = named[j].name

\* The name a statement is kept under: the name of a definition, the last
\* segment of an import.
KeyOf(statement) ==
    IF statement.rule = "import" THEN Last(statement.file) ELSE statement.name

Repeats(statements, i, j) ==
    /\ i < j
    /\ statements[i].rule = statements[j].rule
    /\ KeyOf(statements[i]) = KeyOf(statements[j])

FailsAt(statements, j) ==
    RepeatsKey(statements[j]) \/ \E i \in 1..(j - 1) : Repeats(statements, i, j)

Failing(statements) == {j \in DOMAIN statements : FailsAt(statements, j)}

FirstFailing(statements) ==
    CHOOSE j \in Failing(statements) : \A k \in Failing(statements) : j <= k

\* ParseError::DumplicateImport is the name of the duplicate import error in
\* error.rs.
DuplicateOf(statement) ==
    IF statement.rule = "import" THEN "DumplicateImport" ELSE "DuplicateFuncDef"

\* C19 as stated: building a Document fails with DuplicateFuncDef whenever
\* two definitions have one name, with DuplicateImport whenever two imports
\* have one alias, and with DuplicateNamedArgument whenever a named call
\* repeats a key.
C19_EveryDuplicateReported ==
    DocumentBuilt =>
        LET statements == applied.statements IN
        /\ (\E i, j \in DOMAIN statements :
                Repeats(statements, i, j) /\ statements[j].rule = "func_def")
            => (~applied.res.ok /\ applied.res.err.type = "DuplicateFuncDef")
        /\ (\E i, j \in DOMAIN statements :
                Repeats(statements, i, j) /\ statements[j].rule = "import")
            => (~applied.res.ok /\ applied.res.err.type = DuplicateOf(PairImport(<<"a">>)))
        /\ (\E j \in DOMAIN statements : RepeatsKey(statements[j]))
            => (~applied.res.ok /\ applied.res.err.type = "DuplicateNamedArgument")

\* C19, amended: a Document is built exactly when no statement repeats the
\* name of an earlier definition or the alias of an earlier import and no
\* named call repeats a key; otherwise the first statement in document order
\* that does so decides the error, which is DuplicateNamedArgument when a
\* named call of that statement repeats a key, and else DuplicateFuncDef or
\* DuplicateImport, and the error carries the earlier and the later item of
\* one name.
C19_FirstDuplicateReported ==
    DocumentBuilt =>
        LET statements == applied.statements
            res == applied.res IN
        IF Failing(statements) = {} THEN res.ok
        ELSE LET j == FirstFailing(statements) IN
             /\ ~res.ok
             /\ IF RepeatsKey(statements[j])
                THEN /\ res.err.type = "DuplicateNamedArgument"
                     /\ res.err.old.inner.name = res.err.new.inner.name
                     /\ res.err.old.span < res.err.new.span
                     /\ \E named \in NamedCallsOf(statements[j]) :
                            /\ res.err.new.span \in DOMAIN named
                            /\ named[res.err.old.span].name = res.err.old.inner.name
                            /\ named[res.err.new.span].name = res.err.new.inner.name
                ELSE /\ res.err.type = DuplicateOf(statements[j])
                     /\ res.err.new.span = j
                     /\ Repeats(statements, res.err.old.span, j)
                     /\ KeyOf(statements[j]) =
                            (IF statements[j].rule = "import" THEN res.err.new.inner.alias
                             ELSE res.err.new.inner.name)
                     /\ KeyOf(statements[j]) =
                            (IF statements[j].rule = "import" THEN res.err.old.inner.alias
                             ELSE res.err.old.inner.name)

\* Two imports of one alias whose import strings differ were reported.
C19_Witness ==
    /\ DocumentBuilt
    /\ ~applied.res.ok
    /\ applied.res.err.type = DuplicateOf(PairImport(<<"a">>))
    /\ applied.res.err.old.inner.file # applied.res.err.new.inner.file

C19_WitnessFuncDef ==
    DocumentBuilt /\ ~applied.res.ok /\ applied.res.err.type = "DuplicateFuncDef"

C19_WitnessNamedArgument ==
    DocumentBuilt /\ ~applied.res.ok /\ applied.res.err.type = "DuplicateNamedArgument"

(***************************************************************************)
(* C20: the parameter names of an accepted definition.                     *)
(***************************************************************************)
DistinctParameters(func_def) ==
    IsSome(func_def.args) =>
        \A i, j \in DOMAIN Unwrap(func_def.args) :
            Unwrap(func_def.args)[i].name = Unwrap(func_def.args)[j].name => i = j

\* C20: every FuncDef of every Document that is built has pairwise distinct
\* parameter names.
C20_ParametersDistinct ==
    (DocumentBuilt /\ applied.res.ok) =>
        \A name \in DOMAIN applied.res.val.funcs :
            DistinctParameters(applied.res.val.funcs[name])


(***************************************************************************)
(* C21: the tangent of a multiple of 90 degrees.                           *)
(***************************************************************************)
TanReturned == applied.fn = "Tan" /\ applied.returned

\* C21: Tan of a whole angle fails with NumExprNotFinite when the angle is
\* a multiple of 90, zero and the negative multiples included, and returns
\* a Number for every other whole angle.
C21_TanOfMultiplesOf90 ==
    (TanReturned /\ IsInt(applied.angle)) =>
        IF \E k \in (0 - MaxAngle)..MaxAngle : applied.angle.n = 90 * k
        THEN /\ ~applied.res.ok
             /\ applied.res.err.error_type.type = "NumExprNotFinite"
        ELSE /\ applied.res.ok
             /\ IsNumber(applied.res.val)

\* Tan(-180) has failed with NumExprNotFinite.
C21_Witness ==
    /\ TanReturned
    /\ applied.angle = Number(0 - 180)
    /\ ~applied.res.ok
    /\ applied.res.err.error_type.type = "NumExprNotFinite"

C21_WitnessNumber ==
    TanReturned /\ applied.angle = Number(45) /\ applied.res.ok


(***************************************************************************)
(* C22: the order of the context entries of an error.                      *)
(***************************************************************************)
\* The entry a push puts in its Node.
EntryOf(p) == Last(push(ContextNone, p))

\* C22: the context_entries of an error of eval_err are the frames in the
\* order they were pushed: the frame pushed first is at index 1 and the
\* frame pushed last is at the end.
C22_OutermostFirst ==
    (applied.fn = "eval_err" /\ applied.returned) =>
        /\ Len(applied.res.err.context_entries) = Len(applied.pushes)
        /\ \A i \in DOMAIN applied.pushes :
               applied.res.err.context_entries[i] = EntryOf(applied.pushes[i])

\* What the code gives: the frame pushed last is at index 1.
C22_InnermostFirst ==
    (applied.fn = "eval_err" /\ applied.returned) =>
        /\ Len(applied.res.err.context_entries) = Len(applied.pushes)
        /\ \A i \in DOMAIN applied.pushes :
               applied.res.err.context_entries[Len(applied.pushes) + 1 - i] =
                   EntryOf(applied.pushes[i])


(***************************************************************************)
(* C23: the evaluating set during a call.                                  *)
(***************************************************************************)
\* The argument bindings in progress of the calls made by
\* eval_func_call_expr: the one that is running and those suspended on the
\* evaluation of an argument or of a default.
BindingsInProgress ==
    {b \in (IF ctl.mode \in {"supplied", "defaults"} THEN {ctl.b} ELSE {})
           \cup {stack[i].b : i \in {j \in DOMAIN stack :
                                        stack[j].k \in {"supplied_arg", "default_arg"}}} :
        b.context # ContextNone}

\* The scopes whose eval_scope_unchecked is running.
ScopesInProgress ==
    {stack[i].scope : i \in {j \in DOMAIN stack : stack[j].k = "eval_scope"}}

\* A scope of the callee of a binding, whatever its arguments.
IsScopeOfCallee(scope, b) ==
    /\ scope.name = b.call.name_part
    /\ IF b.callee = "func"
       THEN scope.kind = "FuncCall" /\ scope.doc_path = b.def_doc_path
       ELSE scope.kind = "BuiltIn"

\* C23 as stated: the scope of a call is in the evaluating set during the
\* binding of its arguments as well as during its body, and it is taken out
\* when the call ends.
C23_HeldAcrossBinding ==
    /\ \A b \in BindingsInProgress : \E scope \in evaluating : IsScopeOfCallee(scope, b)
    /\ evaluating \subseteq
           ScopesInProgress \cup {scope \in evaluating :
                                     \E b \in BindingsInProgress : IsScopeOfCallee(scope, b)}
    /\ ScopesInProgress \subseteq evaluating

\* What the code gives: a scope is in the evaluating set exactly while its
\* eval_scope_unchecked runs, that is from the end of the binding of its
\* arguments to the end of the evaluation of its body or default; it is
\* taken out when that ends, whether it succeeded or failed.
HeldAcrossBody == evaluating = ScopesInProgress

\* A call whose body was evaluated has failed, and its scope is out of the
\* evaluating set.
ReleasedOnFailure ==
    \E i \in DOMAIN hist.returned :
        /\ ~hist.returned[i].res.ok
        /\ hist.returned[i].scope.kind = "FuncCall"
        /\ \E j \in DOMAIN hist.executed : hist.executed[j] = hist.returned[i].scope
        /\ hist.returned[i].scope \notin evaluating

\* The arguments of a call are being bound while a body is evaluated.
BindingInsideBody ==
    /\ BindingsInProgress # {}
    /\ ScopesInProgress # {}
    /\ ctl.mode = "eval_expr"


(***************************************************************************)
(* C24: the cache after a call site failed.                                *)
(***************************************************************************)
\* The entry has no parameters and its body is one call: when eval_scope
\* starts that call site the cache is empty, and the run fails exactly when
\* the call site fails.
EntryIsOneCallSite ==
    /\ entry_found
    /\ ~IsSome(EntryFunc.args)
    /\ EntryFunc.body.k = "FuncCall"

RunFailed ==
    /\ ctl.mode = "idle"
    /\ runs # <<>>
    /\ Last(runs).outcome = "returned"
    /\ ~Last(runs).res.ok

\* C24: when the evaluation of a call site failed, the cache is what it was
\* before the call site was started: the evaluations that succeeded before
\* the failure left no entry.
C24_FailureLeavesCache ==
    (EntryIsOneCallSite /\ RunFailed) => cache = EmptyMap

\* What the code gives: every eval_scope that returned Ok has left its entry
\* in the cache, whatever failed later.
SucceededStayCached ==
    \A i \in DOMAIN hist.returned :
        hist.returned[i].res.ok =>
            /\ contains_key(cache, hist.returned[i].scope)
            /\ cache[hist.returned[i].scope] = hist.returned[i].res.val


(***************************************************************************)
(* C25: the context of the errors that eval_function returns.              *)
(***************************************************************************)
\* The run has returned an error that was raised while the body of the
\* entry was evaluated, that is inside a function at least.
FailedInBody ==
    /\ entry_found
    /\ ~IsSome(EntryFunc.args)
    /\ RunFailed

\* C25: an error that was raised inside a function call has the context
\* stack of the point of failure, so its context_entries are not empty;
\* this holds of the errors converted from a ParseError too.
C25_ErrorsCarryContext ==
    FailedInBody => Last(runs).res.err.context_entries # <<>>

\* What the code gives: the errors built by eval_err carry the context, the
\* errors converted from a ParseError carry none.
OnlyParseErrorsBare ==
    FailedInBody =>
        (Last(runs).res.err.context_entries = <<>>
            <=> Last(runs).res.err.error_type.type = "Parse")


(***************************************************************************)
(* C26: the scope of a default.                                            *)
(***************************************************************************)
\* The parameters of a call that were left to their defaults.
Defaulted(b) == DOMAIN b.args \ DOMAIN b.supplied

\* C26: the value bound to a parameter that was left to its default is the
\* value of the ArgDefault scope of the defining document, function and
\* parameter; in that scope no name resolves to a bound parameter, the names
\* of functions are those of the defining document, the scope is evaluated
\* at most once in a run and it has one value, whatever the caller and the
\* supplied arguments are.
C26_DefaultsInDefiningScope ==
    /\ \A i \in DOMAIN hist.calls :
           LET b == hist.calls[i].b IN
           b.callee = "func" =>
               \A p \in Defaulted(b) :
                   \E j \in DOMAIN hist.returned :
                       /\ hist.returned[j].scope =
                              ScopeArgDefault(b.def_doc_path, b.func_def.name, p)
                       /\ hist.returned[j].res = Ok(b.args[p])
    /\ \A i \in DOMAIN hist.resolved :
           LET r == hist.resolved[i] IN
           r.scope.kind = "ArgDefault" =>
               /\ scope_args(r.scope) = EmptyMap
               /\ r.branch # "Argument"
               /\ r.branch = "Func" =>
                      contains_key(docs[r.scope.doc_path].funcs, r.expr.name_part)
    /\ \A i, j \in DOMAIN hist.executed :
           (hist.executed[i].kind = "ArgDefault" /\ hist.executed[i] = hist.executed[j])
               => i = j
    /\ \A i, j \in DOMAIN hist.returned :
           (/\ hist.returned[i].scope.kind = "ArgDefault"
            /\ hist.returned[i].scope = hist.returned[j].scope
            /\ hist.returned[i].res.ok
            /\ hist.returned[j].res.ok)
               => hist.returned[i].res = hist.returned[j].res

\* lib.g was called from a scope of main that has x bound, and its
\* parameter w, whose default is `x`, was bound to the x of lib.
C26_Witness ==
    \E i \in DOMAIN hist.calls :
        LET b == hist.calls[i].b IN
        /\ b.callee = "func"
        /\ b.def_doc_path = Lib
        /\ b.call.name_part = "g"
        /\ call_doc_path(b.scope) = Main
        /\ contains_key(scope_args(b.scope), "x")
        /\ "w" \in Defaulted(b)
        /\ b.args["w"] = Number(9)

\* lib.f was called with x supplied, and its parameter y, whose default is
\* `x`, was bound to the x of lib and not to the supplied x.
C26_WitnessOtherParameter ==
    \E i \in DOMAIN hist.calls :
        LET b == hist.calls[i].b IN
        /\ b.callee = "func"
        /\ b.def_doc_path = Lib
        /\ b.call.name_part = "f"
        /\ contains_key(b.supplied, "x")
        /\ b.args["x"] = Number(2)
        /\ "y" \in Defaulted(b)
        /\ b.args["y"] = Number(9)


(***************************************************************************)
(* C27: a call of a bound parameter.                                       *)
(***************************************************************************)
\* One step from a state where eval_func_call_expr is entered with an
\* unqualified name that is a parameter bound in the scope.
C27_Step ==
    CanResolve("Argument") =>
        /\ ctl' = Return(Ok(scope_args(ctl.scope)[ctl.expr.name_part]))
        /\ UNCHANGED <<cache, evaluating, solids, stack>>

\* C27: a call of a bound parameter returns the bound value at once,
\* whatever arguments it carries: no argument expression is evaluated, and
\* the cache, the evaluating set and the solid store are left as they were.
C27_ParameterCallIgnoresArgs == [][C27_Step]_vars

\* The call x(1 / 0, -Cube) of the parameter x has returned the bound value.
C27_Witness ==
    /\ hist.resolved # <<>>
    /\ Last(hist.resolved).branch = "Argument"
    /\ Last(hist.resolved).expr.args.k = "Positional"
    /\ ctl.mode = "return"
    /\ ctl.res = Ok(scope_args(Last(hist.resolved).scope)[Last(hist.resolved).expr.name_part])
    /\ solids = <<>>


(***************************************************************************)
(* C28: the order of evaluation of operands and positional arguments.      *)
(***************************************************************************)
\* While the right operand of a binary expression is evaluated, the left
\* operand has a value; while the i-th positional argument is evaluated or
\* about to be, the i - 1 arguments before it have their values, in order.
OperandsInOrder ==
    /\ \A i \in DOMAIN stack :
           stack[i].k = "binary_rhs" => (IsNumber(stack[i].lhsv) \/ IsSolid(stack[i].lhsv))
    /\ \A i \in DOMAIN stack :
           (stack[i].k = "supplied_arg" /\ stack[i].b.call.args.k = "Positional")
               => /\ Len(stack[i].b.values) = stack[i].b.index - 2
                  /\ stack[i].b.index - 1 \in DOMAIN stack[i].b.call.args.args
    /\ (ctl.mode = "supplied" /\ ctl.b.call.args.k = "Positional")
           => Len(ctl.b.values) = ctl.b.index - 1

\* The steps of eval_binary_expr and of the loop over positional arguments.
C28_Step ==
    /\ (CanCall("eval_expr") /\ ctl.expr.k = "Binary")
           => ctl' = CallEvalExpr(ctl.expr.lhs, ctl.scope, ctl.context)
    /\ Returning("binary_lhs")
           => IF ctl.res.ok
              THEN ctl' = CallEvalExpr(Top.expr.rhs, Top.scope, Top.context)
              ELSE ctl' = ctl /\ stack' = Pop
    /\ (Returning("binary_rhs") /\ ~ctl.res.ok) => (ctl' = ctl /\ stack' = Pop)
    /\ Returning("supplied_arg")
           => IF ctl.res.ok
              THEN ctl'.mode = "supplied" /\ ctl'.b.values = Append(Top.b.values, ctl.res.val)
              ELSE ctl' = ctl /\ stack' = Pop
    /\ (/\ CanCall("supplied")
        /\ ctl.b.call.args.k = "Positional"
        /\ ctl'.mode = "eval_expr")
           => ctl'.expr = ctl.b.call.args.args[ctl.b.index]

\* C28: the left operand of a binary expression is evaluated to its end
\* before the right operand starts, positional arguments are evaluated in
\* index order, and when one of them fails its error is returned and no
\* later operand or argument is evaluated.
C28_LeftToRight == []OperandsInOrder /\ [][C28_Step]_vars

\* The call f(1 / 0, nosuch) has failed with the error of its first
\* argument, and the second argument was never looked up.
C28_Witness ==
    /\ RunFailed
    /\ EntryFunc.body = FuncCall(None, "f", Positional(<<Div0, Ref("nosuch")>>))
    /\ Last(runs).res.err.error_type.type = "NumExprNotFinite"
    /\ \A i \in DOMAIN hist.resolved : hist.resolved[i].expr # Ref("nosuch")

\* The left operand of f + f has failed, and f was called once.
C28_WitnessBinary ==
    /\ RunFailed
    /\ EntryFunc.body.k = "Binary"
    /\ Len(hist.calls) = 1


(***************************************************************************)
(* C29: the operand types of a binary operation.                           *)
(***************************************************************************)
BinaryReturned == applied.fn = "eval_binary_expr" /\ applied.returned

\* The arithmetic of two whole numbers: the sum, the difference, the
\* product, and the quotient when the divisor is not 0.
ArithmeticOf(l, op, r, res) ==
    CASE op = "Add" -> res = Ok(Number(l + r))
      [] op = "Sub" -> res = Ok(Number(l - r))
      [] op = "Mul" -> res = Ok(Number(l * r))
      [] OTHER -> IF r = 0
                  THEN ~res.ok /\ res.err.error_type.type = "NumExprNotFinite"
                  ELSE /\ res.ok
                       /\ IsNumber(res.val)
                       /\ \A q \in (0 - 6)..6 : l = q * r => res.val = Number(q)

\* The method of the SolidSet an operator stands for.
SolidSetMethod(op, l, r) ==
    CASE op = "Add" -> solids_union(TwoCubes, l, r)
      [] op = "Sub" -> solids_difference(TwoCubes, l, r)
      [] OTHER -> solids_intersection(TwoCubes, l, r)

\* C29: a Number with a Solid, in either order, and the Div of two Solids
\* fail with BinaryOpWrongTypes; Add, Sub and Mul of two Solids are the
\* union, the difference and the intersection of the SolidSet; the four
\* operators on two Numbers are the arithmetic operations.
C29_BinaryOperandTypes ==
    BinaryReturned =>
        LET l == applied.lhsv
            r == applied.rhsv IN
        IF IsNumber(l) /\ IsNumber(r)
        THEN ArithmeticOf(l.n, applied.op, r.n, applied.res) /\ solids = TwoCubes
        ELSE IF IsSolid(l) /\ IsSolid(r) /\ applied.op # "Div"
        THEN /\ applied.res = SolidSetMethod(applied.op, l, r).res
             /\ solids = SolidSetMethod(applied.op, l, r).solids
             /\ applied.res.ok
             /\ IsSolid(applied.res.val)
        ELSE /\ ~applied.res.ok
             /\ applied.res.err.error_type.type = "BinaryOpWrongTypes"
             /\ solids = TwoCubes

\* The Div of two Solids has failed with BinaryOpWrongTypes.
C29_Witness ==
    /\ BinaryReturned
    /\ applied.op = "Div"
    /\ applied.lhsv = Regular(0)
    /\ applied.rhsv = Regular(1)
    /\ ~applied.res.ok
    /\ applied.res.err.error_type.type = "BinaryOpWrongTypes"

C29_WitnessMixed ==
    /\ BinaryReturned
    /\ IsNumber(applied.lhsv)
    /\ IsSolid(applied.rhsv)
    /\ ~applied.res.ok

C29_WitnessUnion ==
    /\ BinaryReturned
    /\ applied.op = "Add"
    /\ applied.res = Ok(Regular(2))
    /\ solids = Append(TwoCubes, Solid("or", TwoCubes[1], TwoCubes[2]))


(***************************************************************************)
(* C30: the operations that reach the geometry kernel.                     *)
(***************************************************************************)
BinaryMethods == {"union", "intersection", "difference"}
BothRegular == applied.lhs.s = "Regular" /\ applied.rhs.s = "Regular"

\* The difference of Universal and a Regular id: SolidSet::negate of the id.
UniversalMinusRegular ==
    /\ applied.fn = "difference"
    /\ applied.lhs = Universal
    /\ applied.rhs.s = "Regular"

\* C30 as stated: union, intersection and difference leave the store as it
\* was whenever an operand is Empty or Universal.
C30_SentinelsLeaveStore ==
    (applied.fn \in BinaryMethods /\ ~BothRegular) => solids = applied.before

\* C30, amended: union, intersection and difference change the store only
\* when both operands are Regular, or when the difference of Universal and a
\* Regular id is taken: that is the negation of the id, which stores the
\* inverted copy of its Solid.  In every other case with an Empty or
\* Universal operand the store is left as it was and the result is a
\* sentinel or the other operand.
C30_KernelOnlyForRegular ==
    applied.fn \in BinaryMethods =>
        /\ (~BothRegular /\ ~UniversalMinusRegular) =>
               /\ solids = applied.before
               /\ applied.res.ok
               /\ applied.res.val \in {Empty, Universal, applied.lhs, applied.rhs}
        /\ UniversalMinusRegular =>
               IF IsSome(try_get(applied.before, applied.rhs))
               THEN /\ solids = Append(applied.before,
                                       solid_not(Unwrap(try_get(applied.before, applied.rhs))))
                    /\ applied.res = Ok(Regular(Len(applied.before)))
               ELSE solids = applied.before /\ ~applied.res.ok
        /\ solids # applied.before =>
               /\ Len(solids) = Len(applied.before) + 1
               /\ Front(solids) = applied.before
               /\ Last(solids).op \in {"or", "and", "not"}

\* The difference of Universal and a Regular id has stored a Solid.
C30_Witness ==
    /\ UniversalMinusRegular
    /\ applied.res.ok
    /\ Len(solids) = Len(applied.before) + 1

\* The intersection of Universal and a Regular id has left the store alone.
C30_WitnessSentinel ==
    /\ applied.fn = "intersection"
    /\ applied.lhs = Universal
    /\ applied.rhs = Regular(0)
    /\ applied.res = Ok(Regular(0))
    /\ solids = applied.before
    /\ solids # <<>>


(***************************************************************************)
(* C31: the store of Solids during a run.                                  *)
(***************************************************************************)
\* The bindings the evaluator holds: the one that is running and those of
\* the suspended callers.
BindingsHeld ==
    (IF ctl.mode \in {"supplied", "defaults"} THEN {ctl.b} ELSE {})
    \cup {stack[i].b : i \in {j \in DOMAIN stack :
                                 stack[j].k \in {"supplied_arg", "default_arg"}}}

\* The scopes the evaluator holds: the keys of the cache, the evaluating set,
\* the scope of the running call and the scopes of the suspended callers.
ScopesHeld ==
    DOMAIN cache
    \cup evaluating
    \cup (IF ctl.mode \in {"eval_scope", "eval_expr"} THEN {ctl.scope} ELSE {})
    \cup {stack[i].scope : i \in {j \in DOMAIN stack :
                                     stack[j].k \in {"eval_scope", "binary_lhs"}}}
    \cup {b.scope : b \in BindingsHeld}

ValuesOf(args) == {args[k] : k \in DOMAIN args}

\* The Values the evaluator holds, and the Value eval_function returned.
ValuesHeld ==
    {cache[sc] : sc \in DOMAIN cache}
    \cup UNION {ValuesOf(sc.args) : sc \in ScopesHeld}
    \cup UNION {ValuesOf(b.args) : b \in BindingsHeld}
    \cup {stack[i].lhsv : i \in {j \in DOMAIN stack : stack[j].k = "binary_rhs"}}
    \cup (IF ctl.mode = "return" /\ ctl.res.ok THEN {ctl.res.val} ELSE {})
    \cup (IF Finished /\ Last(runs).res.ok THEN {Last(runs).res.val} ELSE {})

IsRegular(v) == v.t = "Solid" /\ v.s = "Regular"

\* Every Regular id that is held is the index of a Solid of the store, and
\* the id cached for a Cube is that of a cube of the size of the scope.
IdsValid ==
    /\ \A v \in ValuesHeld : IsRegular(v) => v.n < Len(solids)
    /\ \A sc \in DOMAIN cache :
           (sc.kind = "BuiltIn" /\ sc.name = "Cube") =>
               /\ IsRegular(cache[sc])
               /\ try_get(solids, cache[sc]) = Some(Solid("cube", sc.args["size"], NoValue))

\* A step of a run leaves the Solids of the store in place and adds one at
\* most; eval_function starts on the empty store of a new EvalCache.
C31_Step ==
    ctl.mode # "idle" =>
        /\ Len(solids) <= Len(solids')
        /\ Len(solids') <= Len(solids) + 1
        /\ SubSeq(solids', 1, Len(solids)) = solids

\* C31: the store of Solids is append-only: every step of the evaluator
\* leaves its Solids as they are and adds at most one; every Regular(i) in
\* the cache, bound in a scope or returned by eval_function has i below the
\* length of the store, so it is the id of the Solid it was made for.
C31_AppendOnly == []IdsValid /\ [][C31_Step]_vars

\* A run returned the id of a Solid made by a union, after three other
\* Solids were pushed; the cache holds the id of the cube.
C31_Witness ==
    /\ Finished
    /\ Last(runs).res.ok
    /\ IsRegular(Last(runs).res.val)
    /\ Len(solids) >= 4
    /\ Last(solids).op = "or"
    /\ \E sc \in DOMAIN cache : sc.kind = "BuiltIn" /\ cache[sc] = Regular(0)


(***************************************************************************)
(* C32: the termination of parse_all.                                      *)
(***************************************************************************)
ParseAllReturns == loaded.state = "returned"

\* No path is read twice; when parse_all returns Ok the work set is empty
\* and every document of the result was read once.
ParsedOnce ==
    /\ \A p \in FilePaths \cup to_parse \cup DOMAIN parsed : TimesRead(p) <= 1
    /\ \A p \in DOMAIN parsed : TimesRead(p) = 1
    /\ Succeeded => to_parse = {}

\* C32: parse_all returns on every set of files, those whose imports make a
\* cycle included (a document that imports itself, two documents that import
\* each other): it returns an error, or the work set becomes empty and it
\* returns the documents, each of them read and parsed once.
C32_ParseAllTerminates == <>ParseAllReturns /\ []ParsedOnce

\* parse_all returned two documents that import each other.
C32_Witness ==
    /\ Succeeded
    /\ to_parse = {}
    /\ \E p, q \in DOMAIN DocSetOf :
          /\ p # q
          /\ q \in ImportedBy(p)
          /\ p \in ImportedBy(q)
          /\ TimesRead(p) = 1
          /\ TimesRead(q) = 1

\* parse_all returned a document that imports itself.
C32_WitnessSelfImport ==
    /\ Succeeded
    /\ \E p \in DOMAIN DocSetOf : p \in ImportedBy(p) /\ TimesRead(p) = 1


(***************************************************************************)
(* C33: the FQPaths that import_path returns.                              *)
(***************************************************************************)
\* C33: an FQPath that import_path returns for a document with a path that
\* is not empty is a sequence of one segment at least, whatever the segments
\* and ".." of the import, an import that ends with ".." included.
C33_PathsNonEmpty ==
    (applied.fn = "import_path" /\ applied.returned /\ applied.self # <<>>
        /\ applied.res.ok)
        => applied.res.path # <<>>

\* What the code gives: the FQPath returned has as many segments as were
\* pushed and not popped, and that may be none.
PathHasHeight ==
    (applied.fn = "import_path" /\ applied.returned /\ applied.res.ok) =>
        Len(applied.res.path)
            = HeightAfter(applied.self, applied.import.file, Len(applied.import.file))

\* import_path on `a/..` in the document main returned the empty FQPath.
EmptyPathReturned ==
    /\ applied.fn = "import_path"
    /\ applied.returned
    /\ applied.self = <<"main">>
    /\ applied.import.file = <<"a", "..">>
    /\ applied.res.ok
    /\ applied.res.path = <<>>


(***************************************************************************)
(* C34: what InfiniteRecursion is raised for.                              *)
(***************************************************************************)
InChain(scope, chain) == \E i \in DOMAIN chain : chain[i] = scope

\* Two scopes of one function (or of one default, or built-in).
SameCallee(s1, s2) ==
    /\ s1.kind = s2.kind
    /\ s1.name = s2.name
    /\ s1.doc_path = s2.doc_path
    /\ s1.arg = s2.arg

\* eval_scope returns InfiniteRecursion only for a scope that is equal,
\* arguments included, to the scope of an eval_scope that is active.
C34_Step ==
    (ctl.mode = "eval_scope" /\ ctl'.mode = "return"
        /\ FailedWith(ctl'.res, "InfiniteRecursion"))
        => InChain(ctl.scope, ActiveScopes(stack))

\* An InfiniteRecursion that is returned comes from such an eval_scope; and
\* two eval_scope calls of one function that returned values for different
\* arguments were both evaluated and have an entry each in the cache.
RecursionAndEntries ==
    /\ (HasResult /\ FailedWith(Result, "InfiniteRecursion")) =>
           /\ hist.reentered # <<>>
           /\ \A i \in DOMAIN hist.reentered :
                  InChain(hist.reentered[i].scope, hist.reentered[i].chain)
    /\ \A i, j \in DOMAIN hist.returned :
           (/\ hist.returned[i].res.ok
            /\ hist.returned[j].res.ok
            /\ SameCallee(hist.returned[i].scope, hist.returned[j].scope)
            /\ hist.returned[i].scope # hist.returned[j].scope) =>
               /\ InChain(hist.returned[i].scope, hist.executed)
               /\ InChain(hist.returned[j].scope, hist.executed)
               /\ contains_key(cache, hist.returned[i].scope)
               /\ contains_key(cache, hist.returned[j].scope)
               /\ cache[hist.returned[i].scope] = hist.returned[i].res.val
               /\ cache[hist.returned[j].scope] = hist.returned[j].res.val

\* C34: InfiniteRecursion is raised only when the scopes being evaluated
\* hold the new scope itself: a call of a function from its own body with
\* argument values that differ from those of every active call of it is not
\* reported, and calls of one function with different argument values have
\* separate entries in the cache.
C34_RecursionOnlyOnSameScope == []RecursionAndEntries /\ [][C34_Step]_vars

\* The body of f with x = 2 called f with x = 0, whose body is evaluated: no
\* recursion was reported for it.
C34_Witness ==
    /\ ctl.mode = "eval_expr"
    /\ hist.reentered = <<>>
    /\ \E i, j \in DOMAIN stack :
          /\ i < j
          /\ stack[i].k = "eval_scope"
          /\ stack[j].k = "eval_scope"
          /\ SameCallee(stack[i].scope, stack[j].scope)
          /\ stack[i].scope.kind = "FuncCall"
          /\ stack[i].scope.args # stack[j].scope.args
          /\ ctl.scope = stack[j].scope

\* f(2) + f(3) returned, and the cache has an entry for each call.
C34_WitnessEntries ==
    /\ Finished
    /\ Last(runs).res.ok
    /\ \E s1, s2 \in DOMAIN cache :
          /\ SameCallee(s1, s2)
          /\ s1.kind = "FuncCall"
          /\ s1.args # s2.args
          /\ cache[s1] # cache[s2]

\* The run of f(x) = f(x * 0) on x = 2 returned InfiniteRecursion: the scope
\* with x = 0 was entered while it was being evaluated, inside the scope
\* with x = 2.
C34_WitnessReported ==
    /\ Finished
    /\ FailedWith(Last(runs).res, "InfiniteRecursion")
    /\ hist.reentered # <<>>
    /\ \E k \in DOMAIN hist.reentered[1].chain :
          /\ SameCallee(hist.reentered[1].chain[k], hist.reentered[1].scope)
          /\ hist.reentered[1].chain[k] # hist.reentered[1].scope


(***************************************************************************)
(* C35: the type names in the errors.                                      *)
(***************************************************************************)
\* A binary operator was applied to a Number and a Solid, in either order.
MixedOperands ==
    /\ BinaryReturned
    /\ IsNumber(applied.lhsv) # IsNumber(applied.rhsv)

\* C35: the type name of a Solid is "solid" and is not that of a Number, so
\* the BinaryOpWrongTypes of a Number with a Solid names two different
\* types, "solid" for the Solid operand.
C35_SolidTypeName ==
    MixedOperands =>
        /\ applied.res.err.error_type.type = "BinaryOpWrongTypes"
        /\ applied.res.err.error_type.expected # applied.res.err.error_type.got
        /\ IsSolid(applied.lhsv) => applied.res.err.error_type.expected = "solid"
        /\ IsSolid(applied.rhsv) => applied.res.err.error_type.got = "solid"

\* What the code gives: the error names the type "number" for both operands.
BothNamedNumber ==
    MixedOperands =>
        /\ applied.res.err.error_type.type = "BinaryOpWrongTypes"
        /\ applied.res.err.error_type.expected = "number"
        /\ applied.res.err.error_type.got = "number"


(***************************************************************************)
(* C36: the evaluating set as a stack.                                     *)
(***************************************************************************)
\* The scopes of the eval_scope calls that are active, innermost last.
Active == ActiveScopes(stack)

\* C36: the evaluating set is at every moment the set of the scopes of the
\* eval_scope calls that are active, each of them once; a scope whose
\* eval_scope_unchecked runs is not in the cache; and when eval_function
\* returns, with a value or with an error (InfiniteRecursion included), the
\* evaluating set is empty.
C36_StackDiscipline ==
    /\ evaluating = {Active[i] : i \in DOMAIN Active}
    /\ Cardinality(evaluating) = Len(Active)
    /\ \A i \in DOMAIN Active : ~contains_key(cache, Active[i])
    /\ (ctl.mode = "return" /\ stack = <<>>) => evaluating = {}
    /\ Finished => evaluating = {}

\* eval_function returned InfiniteRecursion from a recursion two scopes
\* deep, and the evaluating set is empty.
C36_Witness ==
    /\ Finished
    /\ FailedWith(Last(runs).res, "InfiniteRecursion")
    /\ evaluating = {}
    /\ \E i \in DOMAIN hist.reentered : Len(hist.reentered[i].chain) >= 2

\* Three eval_scope calls are active, and a scope that returned is cached.
C36_WitnessNested ==
    /\ Len(Active) >= 3
    /\ Cardinality(evaluating) >= 3
    /\ DOMAIN cache # {}

\* eval_function returned a value, and the evaluating set is empty.
C36_WitnessValue ==
    /\ Finished
    /\ Last(runs).res.ok
    /\ Len(hist.executed) >= 3
    /\ evaluating = {}


(***************************************************************************)
(* C37: the keys of the argument map of a scope.                           *)
(***************************************************************************)
\* The callee of a FuncCall scope is a function of the DocSet; that of a
\* BuiltIn scope is a built-in.
CalleeOf(scope) ==
    IF scope.kind = "BuiltIn" THEN get_built_in_func(scope.name) # None
    ELSE /\ contains_key(docs, scope.doc_path)
         /\ contains_key(docs[scope.doc_path].funcs, scope.name)

\* The names of the parameters the callee of a scope declares.
DeclaredNames(scope) ==
    IF scope.kind = "BuiltIn"
    THEN {arg_defs(scope.name)[k].name : k \in DOMAIN arg_defs(scope.name)}
    ELSE LET func == docs[scope.doc_path].funcs[scope.name] IN
         IF IsSome(func.args)
         THEN {Unwrap(func.args)[k].name : k \in DOMAIN Unwrap(func.args)}
         ELSE {}

\* C37: a FuncCall or BuiltIn scope that a call site passes to eval_scope
\* binds the declared parameters of the callee and nothing else: no key that
\* is not a parameter, no parameter without a value, and no key at all for a
\* function without a parameter list.
C37_ScopeBindsParameters ==
    /\ (ctl.mode = "eval_scope" /\ ctl.scope.kind \in {"FuncCall", "BuiltIn"}
            /\ CalleeOf(ctl.scope)) =>
           DOMAIN ctl.scope.args = DeclaredNames(ctl.scope)
    /\ \A i \in DOMAIN hist.calls :
           /\ CalleeOf(hist.calls[i].scope)
           /\ DOMAIN hist.calls[i].scope.args = DeclaredNames(hist.calls[i].scope)
           /\ hist.calls[i].scope.args = hist.calls[i].b.args

\* Cube without arguments: the BuiltIn scope passed to eval_scope binds size
\* to the default 1.
C37_Witness ==
    /\ ctl.mode = "eval_scope"
    /\ ctl.scope = ScopeBuiltIn("Cube", "size" :> Number(1))
    /\ \E i \in DOMAIN hist.resolved :
          /\ hist.resolved[i].branch = "BuiltIn"
          /\ hist.resolved[i].expr.args = CallArgsNone

\* A named call that supplies y and leaves x to its default: the FuncCall
\* scope passed to eval_scope binds x and y.
C37_WitnessFuncCall ==
    /\ ctl.mode = "eval_scope"
    /\ ctl.scope.kind = "FuncCall"
    /\ DOMAIN ctl.scope.args = {"x", "y"}
    /\ \E i \in DOMAIN hist.calls :
          /\ hist.calls[i].scope = ctl.scope
          /\ IsNamed(hist.calls[i].b)
          /\ DOMAIN hist.calls[i].b.supplied = {"y"}

\* A function without a parameter list: its scope binds nothing.
C37_WitnessNoParameters ==
    /\ ctl.mode = "eval_scope"
    /\ ctl.scope.kind = "FuncCall"
    /\ ctl.scope.name = "f"
    /\ CalleeOf(ctl.scope)
    /\ ~IsSome(docs[ctl.scope.doc_path].funcs["f"].args)
    /\ ctl.scope.args = EmptyMap


(***************************************************************************)
(* C38: the forms of a call.                                               *)
(***************************************************************************)
\* Two calls bound the same values to the parameters of the same callee.
SameBinding(b1, b2) ==
    /\ b1.callee = b2.callee
    /\ b1.call.name_part = b2.call.name_part
    /\ b1.def_doc_path = b2.def_doc_path
    /\ b1.args = b2.args

\* The eval_scope calls of a scope that have returned.
ReturnsOf(scope) == {i \in DOMAIN hist.returned : hist.returned[i].scope = scope}

\* The Solids of the store that are cubes.
Cubes == {i \in DOMAIN solids : solids[i].op = "cube"}

\* C38: calls that bind the same values to the same callee have equal
\* scopes, whatever the form of their argument lists (positional, named,
\* left to a default of that value): the callee is evaluated once and every
\* such call returns the value of the one cache entry.  So Cube, Cube(1) and
\* Cube(size = 1) in one run return the same SolidId, and one cube is pushed.
C38_CallFormsShareScope ==
    /\ \A i, j \in DOMAIN hist.calls :
           SameBinding(hist.calls[i].b, hist.calls[j].b) =>
               /\ hist.calls[i].scope = hist.calls[j].scope
               /\ Count(hist.executed, hist.calls[i].scope) <= 1
               /\ \A k, l \in ReturnsOf(hist.calls[i].scope) :
                      hist.returned[k].res = hist.returned[l].res
    /\ \A i, j \in Cubes : solids[i] = solids[j] => i = j
    /\ \A sc \in DOMAIN cache :
           sc = ScopeBuiltIn("Cube", "size" :> Number(1)) =>
               Cardinality({i \in Cubes : solids[i].a = Number(1)}) = 1

\* The run of a = h(Cube, Cube(1), Cube(size = 1)) returned: the three calls
\* returned Regular(0) and the store holds one Solid.
C38_Witness ==
    /\ Finished
    /\ Last(runs).res = Ok(Regular(0))
    /\ Len(solids) = 1
    /\ Cardinality(ReturnsOf(ScopeBuiltIn("Cube", "size" :> Number(1)))) = 3
    /\ \E i, j, k \in DOMAIN hist.calls :
          /\ hist.calls[i].b.call = CubeForms[1]
          /\ hist.calls[j].b.call = CubeForms[2]
          /\ hist.calls[k].b.call = CubeForms[3]
          /\ hist.calls[i].scope = hist.calls[j].scope
          /\ hist.calls[j].scope = hist.calls[k].scope

\* The run of a = g(2) + g(y = 2) + g returned 18: g was evaluated once, and
\* the three calls returned 6.
C38_WitnessFunction ==
    /\ Finished
    /\ Last(runs).res = Ok(Number(18))
    /\ Count(hist.executed, ScopeFuncCall("g", "y" :> Number(2), Main)) = 1
    /\ Cardinality(ReturnsOf(ScopeFuncCall("g", "y" :> Number(2), Main))) = 3


(***************************************************************************)
(* C39: the lookups of documents.                                          *)
(***************************************************************************)
\* The scopes that eval_expr runs with or will run with again: that of the
\* running eval_expr, those of the suspended binary expressions and those
\* of the calls whose arguments are being bound.
ScopesOfExpr ==
    (IF ctl.mode = "eval_expr" THEN {ctl.scope} ELSE {})
    \cup {stack[i].scope : i \in {j \in DOMAIN stack : stack[j].k = "binary_lhs"}}
    \cup {b.scope : b \in BindingsHeld}

\* scope.doc() is Some, and docs[doc_path] is a Document.
HasDocument(scope) ==
    /\ scope.kind \in {"FuncCall", "ArgDefault"}
    /\ IsSome(scope_doc(scope))
    /\ contains_key(docs, Unwrap(scope_doc(scope)))

C39_WitnessFuncNotFound ==
    /\ Finished
    /\ entry.func_name = "nofunc"
    /\ Last(runs).res.err.error_type = ErrorType("FuncNotFound", "nofunc")
    /\ hist.executed = <<>>

\* eval_expr runs with the ArgDefault scope of a parameter of a function of
\* the imported document, while the arguments of the qualified call are
\* bound.
C39_WitnessImported ==
    /\ ctl.mode = "eval_expr"
    /\ ctl.scope.kind = "ArgDefault"
    /\ ctl.scope.doc_path = Lib
    /\ \E b \in BindingsHeld : IsSome(b.call.import_part) /\ b.scope.doc_path = Main

====
